---- MODULE Spec2Model ----
(***************************************************************************)
(* The contraidos analysis engine (backend/app/core): Operation and its    *)
(* derived predicates, ContraidosAnalyzer's constructor (row conversion)   *)
(* and the stages of analyze().                                            *)
(*                                                                         *)
(* Values that arrive from the table are Python values of several types;   *)
(* they are records [type, num, chars]: an int or an integral float holds  *)
(* its number in num, a str holds its characters in chars, "nan" is the    *)
(* not-available marker and "inf" a non-finite float.  Amounts are finite  *)
(* decimals, held exactly as numbers of centimos (0.01 currency units):    *)
(* the rounding of binary floating point is not part of the model.         *)
(***************************************************************************)
EXTENDS Integers, Sequences, FiniteSets, TLC

VARIABLES df, metadata, pc, operations, summary, by_fase, by_contraido,
          validation, calculations, chart_data, analysis_results, returned,
          contraido_calls, stages, calls, other,
          ncalls, last_call, before, results, raised,
          _analysis_cache, export_dir, uuids, response, stored,
          standalone

vars == <<df, metadata, pc, operations, summary, by_fase, by_contraido,
          validation, calculations, chart_data, analysis_results, returned,
          contraido_calls, stages, calls, other,
          ncalls, last_call, before, results, raised,
          _analysis_cache, export_dir, uuids, response, stored,
          standalone>>

\* what a caller of the methods of one analyzer has seen
caller == <<ncalls, last_call, before, results, raised>>

\* what the services of one server process hold, and what its routes answered
service == <<_analysis_cache, export_dir, uuids, response, stored>>

\* Longest multi-row table of the input set.
MaxOps == 3

\* calls a caller makes on one analyzer
MaxCalls == 3

\* rows of a table both analyzers are run on
MaxCompared == 2

\* identifiers uuid4() hands out in one process
MaxUuids == 2

\* rows of a table of the dated family
MaxDated == 2

\* contracts of a table of the many-contracts family
MaxContraidos == 11

\* abs(net_balance) > 0.01, in centimos.
Tolerance == 1

\* self._analyze_by_contraido()[:10]
TopN == 10

\* op.descripcion[:50]
MaxDescripcion == 50

------------------------------------------------------------------------------
\* Python values

NA == [type |-> "nan", num |-> 0, chars |-> <<>>]

PyInt(n) == [type |-> "int", num |-> n, chars |-> <<>>]

PyFloat(n) == [type |-> "float", num |-> n, chars |-> <<>>]

PyInf == [type |-> "inf", num |-> 0, chars |-> <<>>]

PyStr(cs) == [type |-> "str", num |-> 0, chars |-> cs]

\* An unset Optional / a local not yet assigned, and a set one.
None == <<>>

Some(v) == <<v>>

IsNone(x) == Len(x) = 0

Get(x) == x[1]

\* the standalone ContraidosAnalyzer() before a file is loaded
NotLoaded == [pc |-> "new", operations |-> <<>>, analysis_results |-> <<>>, raised |-> <<>>]

Abs(n) == IF n < 0 THEN 0 - n ELSE n

Min(a, b) == IF a < b THEN a ELSE b

SeqUpTo(S, n) == UNION {[1..k -> S] : k \in 0..n}

\* pd.notna(v)
NotNa(v) == v.type # "nan"

\* isinstance(v, (int, float))
IsNumber(v) == v.type \in {"int", "float", "inf"}

\* a value sum() and += can add to a number
IsNumeric(v) == v.type \in {"int", "float"}

Digits == <<"0", "1", "2", "3", "4", "5", "6", "7", "8", "9">>

IsDigit(c) == \E d \in 1..10 : Digits[d] = c

DigitVal(c) == (CHOOSE d \in 1..10 : Digits[d] = c) - 1

RECURSIVE LStrip(_)
LStrip(cs) == IF cs # <<>> /\ Head(cs) = " " THEN LStrip(Tail(cs)) ELSE cs

RECURSIVE RStrip(_)
RStrip(cs) ==
    IF cs # <<>> /\ cs[Len(cs)] = " " THEN RStrip(SubSeq(cs, 1, Len(cs) - 1)) ELSE cs

\* str.strip()
Strip(cs) == RStrip(LStrip(cs))

RECURSIVE DigitsValue(_, _)
DigitsValue(cs, acc) ==
    IF cs = <<>> THEN acc ELSE DigitsValue(Tail(cs), acc * 10 + DigitVal(Head(cs)))

\* int(s) of a str: surrounding whitespace and one sign are accepted, then
\* only decimal digits; anything else is a ValueError.
IntOfStr(cs) ==
    LET s == Strip(cs)
        signed == s # <<>> /\ Head(s) \in {"+", "-"}
        body == IF signed THEN Tail(s) ELSE s
        ok == body # <<>> /\ \A i \in 1..Len(body) : IsDigit(body[i])
    IN  IF ~ok THEN [raised |-> TRUE, value |-> 0]
        ELSE [raised |-> FALSE,
              value |-> IF signed /\ Head(s) = "-" THEN 0 - DigitsValue(body, 0)
                        ELSE DigitsValue(body, 0)]

RECURSIVE NatToChars(_)
NatToChars(n) ==
    IF n < 10 THEN <<Digits[n + 1]>> ELSE NatToChars(n \div 10) \o <<Digits[(n % 10) + 1]>>

\* str(v) of a str or of an int
StrOf(v) ==
    IF v.type = "str" THEN v.chars
    ELSE IF v.num < 0 THEN <<"-">> \o NatToChars(0 - v.num) ELSE NatToChars(v.num)

------------------------------------------------------------------------------
\* Operation (models.py)

Operation(num_operacion, num_contraido, importe, fase, fecha, descripcion, estado) ==
    [num_operacion |-> num_operacion, num_contraido |-> num_contraido,
     importe |-> importe, fase |-> fase, fecha |-> fecha,
     descripcion |-> descripcion, estado |-> estado]

\* self.estado == 4
EstadoIs4(e) == e.type \in {"int", "float"} /\ e.num = 4

\* self.estado == "4"
EstadoIsStr4(e) == e.type = "str" /\ e.chars = <<"4">>

is_arqueo(op) == op.fase = "AINP"

is_cargo(op) == op.fase = "M;P"

is_valid_cargo(op) == is_cargo(op) /\ (EstadoIs4(op.estado) \/ EstadoIsStr4(op.estado))

is_invalid_cargo_forgets_int(op) == is_cargo(op) /\ ~EstadoIsStr4(op.estado)

is_invalid_cargo(op) ==
    is_cargo(op) /\ ~EstadoIs4(op.estado) /\ ~EstadoIsStr4(op.estado)

\* the amount as a number (of an importe that is one)
Num(v) == v.num

effective_amount(op) ==
    IF is_arqueo(op) THEN Num(op.importe)
    ELSE IF is_valid_cargo(op) THEN 0 - Num(op.importe)
    ELSE 0

------------------------------------------------------------------------------
\* ContraidosAnalyzer._parse_operations

\* The Estado conversion of one row: the normalized status, or the exception
\* that int() of a non-finite float raises outside any try.
ParseEstado(estado_val) ==
    IF NotNa(estado_val)
    THEN IF IsNumber(estado_val)
         THEN IF estado_val.type = "inf"
              THEN [raised |-> TRUE, value |-> PyStr(<<>>)]
              ELSE [raised |-> FALSE, value |-> PyInt(estado_val.num)]
         ELSE LET r == IntOfStr(estado_val.chars)
              IN  IF r.raised
                  THEN [raised |-> FALSE, value |-> PyStr(Strip(estado_val.chars))]
                  ELSE [raised |-> FALSE, value |-> PyInt(r.value)]
    ELSE [raised |-> FALSE, value |-> PyStr(<<>>)]

ParseRow(row) ==
    Operation(row.num_operacion,
              IF NotNa(row.num_contraido) THEN StrOf(row.num_contraido) ELSE <<>>,
              row.importe,
              row.fase,
              IF NotNa(row.fecha) THEN StrOf(row.fecha) ELSE <<>>,
              IF NotNa(row.descripcion) THEN StrOf(row.descripcion) ELSE <<>>,
              ParseEstado(row.estado).value)

\* The rows converted before the first row whose conversion raises (all of
\* them when none does).
RECURSIVE ParseRows(_, _)
ParseRows(rows, acc) ==
    IF rows = <<>> THEN [raised |-> FALSE, operations |-> acc]
    ELSE IF ParseEstado(Head(rows).estado).raised
         THEN [raised |-> TRUE, operations |-> acc]
         ELSE ParseRows(Tail(rows), Append(acc, ParseRow(Head(rows))))

------------------------------------------------------------------------------
\* The stages of ContraidosAnalyzer.analyze

RECURSIVE SumImporte(_)
SumImporte(ops) ==
    IF ops = <<>> THEN 0 ELSE Num(Head(ops).importe) + SumImporte(Tail(ops))

RECURSIVE NumOperaciones(_)
NumOperaciones(ops) ==
    IF ops = <<>> THEN <<>> ELSE <<Head(ops).num_operacion>> \o NumOperaciones(Tail(ops))

\* sum() over the amounts of `ops` raises TypeError at one that is no number
SumRaises(ops) == \E i \in 1..Len(ops) : ~IsNumeric(ops[i].importe)

HasContraido(op) == op.num_contraido # <<>>

\* `sub` in cs
Contains(cs, sub) ==
    \E i \in 1..(Len(cs) - Len(sub) + 1) : SubSeq(cs, i, i + Len(sub) - 1) = sub

\* cs.split(sep): the fields between the occurrences of the character sep
RECURSIVE Split(_, _, _)
Split(cs, sep, field) ==
    IF cs = <<>> THEN <<field>>
    ELSE IF Head(cs) = sep THEN <<field>> \o Split(Tail(cs), sep, <<>>)
         ELSE Split(Tail(cs), sep, Append(field, Head(cs)))

AllDigits(cs) == \A i \in 1..Len(cs) : IsDigit(cs[i])

IsLeap(y) == (y % 4 = 0 /\ y % 100 # 0) \/ y % 400 = 0

DaysIn(y, m) ==
    IF m = 2 THEN (IF IsLeap(y) THEN 29 ELSE 28)
    ELSE IF m \in {4, 6, 9, 11} THEN 30 ELSE 31

NoDate == [ok |-> FALSE, y |-> 0, m |-> 0, d |-> 0]

\* datetime(y, m, d) of the three fields strptime has matched: %Y is four
\* digits, %m and %d one or two digits of a month and of a day of a month;
\* anything else, and a day the month does not have, is a ValueError.
DateOfFields(year, month, day) ==
    IF /\ Len(year) = 4 /\ AllDigits(year)
       /\ Len(month) \in {1, 2} /\ AllDigits(month)
       /\ Len(day) \in {1, 2} /\ AllDigits(day)
    THEN LET y == DigitsValue(year, 0)
             m == DigitsValue(month, 0)
             d == DigitsValue(day, 0)
         IN  IF y >= 1 /\ m \in 1..12 /\ d >= 1 /\ d <= DaysIn(y, m)
             THEN [ok |-> TRUE, y |-> y, m |-> m, d |-> d]
             ELSE NoDate
    ELSE NoDate

\* datetime.strptime(cs, "%Y-%m-%d")
StrptimeYmd(cs) ==
    LET f == Split(cs, "-", <<>>)
    IN  IF Len(f) = 3 THEN DateOfFields(f[1], f[2], f[3]) ELSE NoDate

\* datetime.strptime(cs, "%d/%m/%Y")
StrptimeDmy(cs) ==
    LET f == Split(cs, "/", <<>>)
    IN  IF Len(f) = 3 THEN DateOfFields(f[3], f[2], f[1]) ELSE NoDate

Midnight == <<"0", "0", ":", "0", "0", ":", "0", "0">>

\* The date one operation contributes to valid_dates, if any.
ParseFecha(fecha) ==
    IF fecha = <<>> \/ fecha = <<"n", "a", "n">> THEN NoDate
    ELSE IF Contains(fecha, Midnight) THEN StrptimeYmd(Split(fecha, " ", <<>>)[1])
    ELSE IF Contains(fecha, <<"/">>) THEN StrptimeDmy(fecha)
    ELSE NoDate

DateBefore(a, b) ==
    \/ a.y < b.y
    \/ a.y = b.y /\ a.m < b.m
    \/ a.y = b.y /\ a.m = b.m /\ a.d < b.d

Pad(n, width) ==
    LET cs == NatToChars(n)
    IN  [i \in 1..(width - Len(cs)) |-> "0"] \o cs

\* date.strftime("%Y-%m-%d")
Strftime(date) ==
    (IF date.y < 1000 THEN Pad(date.y, 4) ELSE NatToChars(date.y))
        \o <<"-">> \o Pad(date.m, 2) \o <<"-">> \o Pad(date.d, 2)

RECURSIVE ValidDates(_)
ValidDates(ops) ==
    IF ops = <<>> THEN <<>>
    ELSE IF ParseFecha(Head(ops).fecha).ok
         THEN <<ParseFecha(Head(ops).fecha)>> \o ValidDates(Tail(ops))
         ELSE ValidDates(Tail(ops))

_get_date_range(ops) ==
    LET valid_dates == ValidDates(ops)
    IN  IF valid_dates # <<>>
        THEN [earliest |->
                Some(Strftime(CHOOSE a \in {valid_dates[i] : i \in 1..Len(valid_dates)} :
                        \A i \in 1..Len(valid_dates) : ~DateBefore(valid_dates[i], a))),
              latest |->
                Some(Strftime(CHOOSE a \in {valid_dates[i] : i \in 1..Len(valid_dates)} :
                        \A i \in 1..Len(valid_dates) : ~DateBefore(a, valid_dates[i])))]
        ELSE [earliest |-> None, latest |-> None]

_analyze_summary_counts_blank(ops) ==
    [total_operations |-> Len(ops),
     arqueo_count |-> Len(SelectSeq(ops, is_arqueo)),
     cargo_count |-> Len(SelectSeq(ops, is_cargo)),
     valid_cargo_count |-> Len(SelectSeq(ops, is_valid_cargo)),
     invalid_cargo_count |-> Len(SelectSeq(ops, is_invalid_cargo)),
     unique_contraidos |-> Cardinality({ops[i].num_contraido : i \in 1..Len(ops)}),
     date_range |-> _get_date_range(ops)]

_analyze_summary(ops) ==
    [total_operations |-> Len(ops),
     arqueo_count |-> Len(SelectSeq(ops, is_arqueo)),
     cargo_count |-> Len(SelectSeq(ops, is_cargo)),
     valid_cargo_count |-> Len(SelectSeq(ops, is_valid_cargo)),
     invalid_cargo_count |-> Len(SelectSeq(ops, is_invalid_cargo)),
     unique_contraidos |->
        Cardinality({ops[i].num_contraido : i \in {j \in 1..Len(ops) : HasContraido(ops[j])}}),
     date_range |-> _get_date_range(ops)]

_analyze_by_fase_raises(ops) ==
    SumRaises(SelectSeq(ops, is_arqueo)) \/ SumRaises(SelectSeq(ops, is_cargo))

_analyze_by_fase(ops) ==
    LET ainp_ops == SelectSeq(ops, is_arqueo)
        mp_ops == SelectSeq(ops, is_cargo)
        valid == SelectSeq(mp_ops, is_valid_cargo)
        invalid == SelectSeq(mp_ops, is_invalid_cargo)
    IN  [AINP |-> [count |-> Len(ainp_ops),
                   total_amount |-> SumImporte(ainp_ops),
                   operations |-> NumOperaciones(ainp_ops)],
         MP |-> [count |-> Len(mp_ops),
                 valid |-> [count |-> Len(valid),
                            total_amount |-> SumImporte(valid),
                            operations |-> NumOperaciones(valid)],
                 invalid |-> [count |-> Len(invalid),
                              total_amount |-> SumImporte(invalid),
                              operations |-> NumOperaciones(invalid)]]]

NewGroup(num_contraido) ==
    [num_contraido |-> num_contraido, operations |-> <<>>, total_arqueo |-> 0,
     total_cargo_valid |-> 0, total_cargo_invalid |-> 0, net_balance |-> 0,
     has_invalid_operations |-> FALSE, needs_attention |-> FALSE]

\* op.descripcion[:50] + "..." if len(op.descripcion) > 50 else op.descripcion
Shortened(descripcion) ==
    IF Len(descripcion) > MaxDescripcion
    THEN SubSeq(descripcion, 1, MaxDescripcion) \o <<".", ".", ".">>
    ELSE descripcion

OperationSummary(op) ==
    [num_operacion |-> op.num_operacion, fase |-> op.fase, estado |-> op.estado,
     importe |-> op.importe, fecha |-> op.fecha,
     descripcion |-> Shortened(op.descripcion)]

\* position of the group of `num_contraido` in the insertion-ordered dict, 0 if none
GroupIndex(groups, num_contraido) ==
    IF \E i \in 1..Len(groups) : groups[i].num_contraido = num_contraido
    THEN CHOOSE i \in 1..Len(groups) : groups[i].num_contraido = num_contraido
    ELSE 0

\* the totals of a group after one operation of it
AddToTotals_invalid_offsets(group, op) ==
    IF is_arqueo(op)
    THEN [group EXCEPT !.total_arqueo = @ + Num(op.importe)]
    ELSE IF is_cargo(op)
    THEN [group EXCEPT !.total_cargo_valid = @ + Num(op.importe)]
    ELSE group

AddToTotals_clears_flags(group, op) ==
    IF is_arqueo(op)
    THEN [group EXCEPT !.total_arqueo = @ + Num(op.importe),
                       !.has_invalid_operations = FALSE,
                       !.needs_attention = FALSE]
    ELSE IF is_valid_cargo(op)
    THEN [group EXCEPT !.total_cargo_valid = @ + Num(op.importe)]
    ELSE IF is_invalid_cargo(op)
    THEN [group EXCEPT !.total_cargo_invalid = @ + Num(op.importe),
                       !.has_invalid_operations = TRUE,
                       !.needs_attention = TRUE]
    ELSE group

AddToTotals(group, op) ==
    IF is_arqueo(op)
    THEN [group EXCEPT !.total_arqueo = @ + Num(op.importe)]
    ELSE IF is_valid_cargo(op)
    THEN [group EXCEPT !.total_cargo_valid = @ + Num(op.importe)]
    ELSE IF is_invalid_cargo(op)
    THEN [group EXCEPT !.total_cargo_invalid = @ + Num(op.importe),
                       !.has_invalid_operations = TRUE,
                       !.needs_attention = TRUE]
    ELSE group

\* one iteration of the loop over self.operations
FoldOperation_keeps_empty(groups, op) ==
    LET found == GroupIndex(groups, op.num_contraido)
        gs == IF found = 0 THEN Append(groups, NewGroup(op.num_contraido)) ELSE groups
        i == IF found = 0 THEN Len(gs) ELSE found
        g1 == [gs[i] EXCEPT !.operations = Append(@, OperationSummary(op))]
        g2 == AddToTotals(g1, op)
    IN  [gs EXCEPT ![i] = [g2 EXCEPT !.net_balance = g2.total_arqueo - g2.total_cargo_valid]]

FoldOperation(groups, op) ==
    IF ~HasContraido(op) THEN groups
    ELSE LET found == GroupIndex(groups, op.num_contraido)
             gs == IF found = 0 THEN Append(groups, NewGroup(op.num_contraido)) ELSE groups
             i == IF found = 0 THEN Len(gs) ELSE found
             g1 == [gs[i] EXCEPT !.operations = Append(@, OperationSummary(op))]
             g2 == AddToTotals(g1, op)
         IN  [gs EXCEPT ![i] =
                 [g2 EXCEPT !.net_balance = g2.total_arqueo - g2.total_cargo_valid]]

RECURSIVE FoldOperations(_, _)
FoldOperations(groups, ops) ==
    IF ops = <<>> THEN groups
    ELSE FoldOperations(FoldOperation(groups, Head(ops)), Tail(ops))

SortKey_signed(group) == group.net_balance

\* key=lambda x: abs(x["net_balance"])
SortKey(group) == Abs(group.net_balance)

\* list.sort(key=..., reverse=True) is stable: a group goes after every group
\* already placed whose key is not smaller.
RECURSIVE InsertByKey(_, _)
InsertByKey(sorted, group) ==
    IF sorted = <<>> THEN <<group>>
    ELSE IF SortKey(Head(sorted)) >= SortKey(group)
         THEN <<Head(sorted)>> \o InsertByKey(Tail(sorted), group)
         ELSE <<group>> \o sorted

RECURSIVE SortGroups(_, _)
SortGroups(sorted, groups) ==
    IF groups = <<>> THEN sorted
    ELSE SortGroups(InsertByKey(sorted, Head(groups)), Tail(groups))

_analyze_by_contraido_raises(ops) ==
    \E i \in 1..Len(ops) :
        /\ HasContraido(ops[i])
        /\ is_arqueo(ops[i]) \/ is_cargo(ops[i])
        /\ ~IsNumeric(ops[i].importe)

\* an aggregation that keeps the group of largest balance only
_analyze_by_contraido_keeps_first(ops) ==
    SubSeq(SortGroups(<<>>, FoldOperations(<<>>, ops)), 1,
           Min(1, Len(FoldOperations(<<>>, ops))))

_analyze_by_contraido(ops) == SortGroups(<<>>, FoldOperations(<<>>, ops))

Issue(op) ==
    [type |-> "INVALID_CARGO", severity |-> "critical", operation |-> op.num_operacion,
     contraido |-> op.num_contraido, amount |-> op.importe, estado |-> op.estado,
     message |-> <<"Operacion M;P con estado '", op.estado, "' != 4 (incompleta/cancelada)">>]

RECURSIVE IssuesOf(_)
IssuesOf(ops) == IF ops = <<>> THEN <<>> ELSE <<Issue(Head(ops))>> \o IssuesOf(Tail(ops))

Issues_all_cargos(ops) == IssuesOf(SelectSeq(ops, is_cargo))

\* invalid_mp and the loop that appends one issue for each
Issues(ops) == IssuesOf(SelectSeq(ops, is_invalid_cargo))

Warning(group) ==
    [type |-> IF group.net_balance > 0 THEN "POSITIVE_BALANCE" ELSE "NEGATIVE_BALANCE",
     severity |-> "warning", contraido |-> group.num_contraido,
     balance |-> group.net_balance,
     message |-> <<IF group.net_balance > 0 THEN "Contraido con saldo positivo: €"
                   ELSE "Contraido con saldo negativo: €", group.net_balance>>]

Significant_inclusive(group) == Abs(group.net_balance) >= Tolerance

\* abs(group["net_balance"]) > 0.01
Significant(group) == Abs(group.net_balance) > Tolerance

RECURSIVE Warnings(_)
Warnings(groups) ==
    IF groups = <<>> THEN <<>>
    ELSE IF Significant(Head(groups))
         THEN <<Warning(Head(groups))>> \o Warnings(Tail(groups))
         ELSE Warnings(Tail(groups))

ValidationReport_counts_warnings(issues, warnings) ==
    [is_valid |-> Len(issues) = 0 /\ Len(warnings) = 0, issues |-> issues,
     warnings |-> warnings, total_issues |-> Len(issues),
     total_warnings |-> Len(warnings)]

\* the dict validate_business_rules returns
ValidationReport(issues, warnings) ==
    [is_valid |-> Len(issues) = 0, issues |-> issues, warnings |-> warnings,
     total_issues |-> Len(issues), total_warnings |-> Len(warnings)]

validate_business_rules(ops) ==
    ValidationReport(Issues(ops), Warnings(_analyze_by_contraido(ops)))

\* A quotient of two amounts, times 100, kept exact as numerator and denominator.
Ratio(n, d) == [num |-> n, den |-> d]

RatioEq(a, b) == a.num * b.den = b.num * a.den

Zero == Ratio(0, 1)

_calculate_totals_raises(ops) ==
    \/ SumRaises(SelectSeq(ops, is_arqueo))
    \/ SumRaises(SelectSeq(ops, is_valid_cargo))
    \/ SumRaises(SelectSeq(ops, is_invalid_cargo))

_calculate_totals_nets_invalid(ops) ==
    LET total_arqueo == SumImporte(SelectSeq(ops, is_arqueo))
        total_cargo_valid == SumImporte(SelectSeq(ops, is_valid_cargo))
        total_cargo_invalid == SumImporte(SelectSeq(ops, is_invalid_cargo))
    IN  [total_arqueo_positive |-> total_arqueo,
         total_cargo_negative |-> total_cargo_valid,
         total_cargo_invalid |-> total_cargo_invalid,
         net_balance |-> total_arqueo - total_cargo_valid - total_cargo_invalid,
         percentage_invalid |->
            IF total_cargo_valid + total_cargo_invalid > 0
            THEN Ratio(total_cargo_invalid * 100, total_cargo_valid + total_cargo_invalid)
            ELSE Zero]

_calculate_totals(ops) ==
    LET total_arqueo == SumImporte(SelectSeq(ops, is_arqueo))
        total_cargo_valid == SumImporte(SelectSeq(ops, is_valid_cargo))
        total_cargo_invalid == SumImporte(SelectSeq(ops, is_invalid_cargo))
    IN  [total_arqueo_positive |-> total_arqueo,
         total_cargo_negative |-> total_cargo_valid,
         total_cargo_invalid |-> total_cargo_invalid,
         net_balance |-> total_arqueo - total_cargo_valid,
         percentage_invalid |->
            IF total_cargo_valid + total_cargo_invalid > 0
            THEN Ratio(total_cargo_invalid * 100, total_cargo_valid + total_cargo_invalid)
            ELSE Zero]

Take_unbounded(seq, n) == seq

\* seq[:n]
Take(seq, n) == SubSeq(seq, 1, Min(n, Len(seq)))

RECURSIVE TopContraidos(_)
TopContraidos(groups) ==
    IF groups = <<>> THEN <<>>
    ELSE <<[contraido |-> Head(groups).num_contraido, balance |-> Head(groups).net_balance]>>
         \o TopContraidos(Tail(groups))

get_chart_data_raises(ops) ==
    \/ _analyze_by_fase_raises(ops)
    \/ _calculate_totals_raises(ops)
    \/ _analyze_by_contraido_raises(ops)

get_chart_data(ops) ==
    LET fase == _analyze_by_fase(ops)
        totals == _calculate_totals(ops)
    IN  [fase_distribution |->
            <<[name |-> "AINP (Arqueo)", value |-> fase.AINP.count, color |-> "#10b981"],
              [name |-> "M;P Valido", value |-> fase.MP.valid.count, color |-> "#3b82f6"],
              [name |-> "M;P Invalido", value |-> fase.MP.invalid.count, color |-> "#ef4444"]>>,
         balance_summary |->
            <<[category |-> "AINP Total", value |-> totals.total_arqueo_positive,
               color |-> "#10b981"],
              [category |-> "M;P Valido", value |-> totals.total_cargo_negative,
               color |-> "#3b82f6"],
              [category |-> "Balance Neto", value |-> totals.net_balance,
               color |-> "#8b5cf6"]>>,
         top_contraidos |-> TopContraidos(Take(_analyze_by_contraido(ops), TopN))]

\* AnalysisResult (an unset dict field is its default, the empty dict)
SuccessResult ==
    [success |-> TRUE, analysis_type |-> "contraidos", summary |-> summary,
     details |-> Some([by_fase |-> Get(by_fase), by_contraido |-> Get(by_contraido),
                       calculations |-> Get(calculations)]),
     validation |-> validation, chart_data |-> chart_data,
     metadata |-> metadata, error |-> None]

FailureResult ==
    [success |-> FALSE, analysis_type |-> "contraidos", summary |-> None,
     details |-> None, validation |-> None, chart_data |-> None, metadata |-> None,
     error |-> Some("Analysis error: unsupported operand type(s) for +: 'int' and 'str'")]

------------------------------------------------------------------------------
\* Input tables: every table of at most MaxOps rows over CoreRows, and every
\* one-row table over WideRows (all raw status shapes, amounts that are
\* negative, zero or not a number).

Row(num_contraido, importe, fase, estado) ==
    [num_operacion |-> 0, num_contraido |-> num_contraido, importe |-> importe,
     fase |-> fase, fecha |-> NA, descripcion |-> NA, estado |-> estado]

A1 == PyStr(<<"A", "1">>)

B2 == PyStr(<<"B", "2">>)

CoreRows ==
    {Row(c, PyFloat(a), k[1], k[2]) :
        c \in {NA, A1, B2}, a \in {1, 2},
        k \in {<<"AINP", PyInt(4)>>, <<"M;P", PyInt(4)>>, <<"M;P", PyInt(2)>>}}

RawEstados ==
    {NA, PyInt(4), PyInt(2), PyFloat(4), PyInf, PyStr(<<"4">>), PyStr(<<"4", ".", "0">>),
     PyStr(<<" ", "X", " ">>)}

WideRows ==
    {Row(c, a, f, e) :
        c \in {NA, A1}, a \in {PyFloat(0 - 1), PyFloat(0), PyFloat(2), PyStr(<<"x">>)},
        f \in {"AINP", "M;P", "OTRA"}, e \in RawEstados}

\* the rows of a table carry distinct operation numbers
Numbered(rows) == [i \in 1..Len(rows) |-> [rows[i] EXCEPT !.num_operacion = i]]

\* the values of the Fecha column: timestamps at midnight, a day/month/year
\* string, a bare ISO date, a timestamp with a time of day, two days that no
\* calendar has, a string of another shape, and an empty cell
RawFechas ==
    {NA,
     PyStr(<<"2", "0", "2", "4", "-", "0", "1", "-", "1", "5", " ", "0", "0", ":", "0", "0", ":", "0", "0">>),
     PyStr(<<"2", "0", "2", "3", "-", "0", "6", "-", "3", "0", " ", "0", "0", ":", "0", "0", ":", "0", "0">>),
     PyStr(<<"3", "1", "/", "1", "2", "/", "2", "0", "2", "3">>),
     PyStr(<<"2", "0", "2", "4", "-", "0", "3", "-", "0", "1">>),
     PyStr(<<"2", "0", "2", "3", "-", "0", "1", "-", "0", "2", " ", "1", "0", ":", "3", "0", ":", "0", "0">>),
     PyStr(<<"3", "0", "/", "0", "2", "/", "2", "0", "2", "3">>),
     PyStr(<<"2", "0", "2", "3", "-", "0", "2", "-", "3", "0", " ", "0", "0", ":", "0", "0", ":", "0", "0">>),
     PyStr(<<"2", "0", "2", "4", "0", "1", "1", "5">>)}

DatedRow(fecha) == [Row(A1, PyFloat(1), "AINP", PyInt(4)) EXCEPT !.fecha = fecha]

DatedTables == {Numbered(rows) : rows \in SeqUpTo({DatedRow(f) : f \in RawFechas}, MaxDated)}

\* row i of a table of one operation per contract: amounts that grow with i,
\* that are all equal, or that are arqueos and valid cargos in turn
ManyRow(i, k) ==
    Row(PyInt(i), PyFloat(IF k = 2 THEN 1 ELSE i),
        IF k = 3 /\ i % 2 = 0 THEN "M;P" ELSE "AINP", PyInt(4))

ManyTables ==
    {Numbered([i \in 1..n |-> ManyRow(i, k)]) : n \in (TopN - 1)..MaxContraidos, k \in 1..3}

Tables ==
    {Numbered(rows) : rows \in SeqUpTo(CoreRows, MaxOps)}
        \cup {Numbered(<<r>>) : r \in WideRows}
        \cup DatedTables
        \cup ManyTables

\* the metadata argument: absent, or the mapping of the parse step (tables of
\* several rows are analyzed with the parse step's metadata only)
MetadataArgs == {None, Some({<<"file_type", "contraidos_excel">>})}

------------------------------------------------------------------------------
\* The analyzer: pc is "new" before the constructor has run, then the stage
\* of analyze() that runs next, then how the run ended ("raised": an
\* exception left the constructor). stages lists the calls that have
\* returned, in the order of their return; calls lists the calls of the
\* aggregation and totals methods that have returned, those made from inside
\* validate_business_rules and get_chart_data included. other is a second
\* analyzer, when there is one: the attributes of that instance. ncalls,
\* last_call, before, results and raised belong to a caller that invokes the
\* methods of a constructed analyzer one after the other: the number of
\* calls made, the name of the last one, the attributes and results as they
\* were when it started, the results analyze() has returned so far, and the
\* exception the last call raised, if it raised one. standalone is the
\* analyzer of the command-line script: how far it has come ("new", "loaded",
\* "analyzed", or "raised"), its operations, the results analyze() stored,
\* and the exception that ended it.

Init ==
    /\ df \in Tables
    /\ metadata \in IF Len(df) <= 1 THEN MetadataArgs ELSE MetadataArgs \ {None}
    /\ pc = "new"
    /\ operations = <<>>
    /\ summary = None
    /\ by_fase = None
    /\ by_contraido = None
    /\ validation = None
    /\ calculations = None
    /\ chart_data = None
    /\ analysis_results = None
    /\ returned = None
    /\ contraido_calls = <<>>
    /\ stages = <<>>
    /\ calls = <<>>
    /\ ncalls = 0
    /\ last_call = ""
    /\ before = None
    /\ results = <<>>
    /\ raised = None
    /\ _analysis_cache = [analysis |-> <<>>, export |-> <<>>]
    /\ export_dir = {}
    /\ uuids = 0
    /\ response = None
    /\ stored = <<>>
    /\ standalone = NotLoaded
    /\ other = None

locals == <<summary, by_fase, by_contraido, validation, calculations, chart_data>>

\* ContraidosAnalyzer.__init__: BaseAnalyzer.__init__, then _parse_operations
Construct ==
    /\ pc = "new"
    /\ LET parsed == ParseRows(df, <<>>)
       IN  /\ operations' = parsed.operations
           /\ pc' = IF parsed.raised THEN "raised" ELSE "summary"
    /\ metadata' = IF IsNone(metadata) THEN Some({}) ELSE metadata
    /\ analysis_results' = None
    /\ stages' = IF ParseRows(df, <<>>).raised THEN stages
                 ELSE Append(stages, "_parse_operations")
    /\ UNCHANGED <<df, other, caller, service, standalone, calls, locals, returned, contraido_calls>>

\* an exception inside the try of analyze(): the except clause returns
Fail ==
    /\ pc' = "failed"
    /\ returned' = Some(FailureResult)
    /\ UNCHANGED <<df, other, caller, service, standalone, calls, stages, metadata, operations, locals, analysis_results, contraido_calls>>

AnalyzeSummary ==
    /\ pc = "summary"
    /\ summary' = Some(_analyze_summary(operations))
    /\ pc' = "by_fase"
    /\ stages' = Append(stages, "_analyze_summary")
    /\ UNCHANGED <<df, other, caller, service, standalone, calls, metadata, operations, by_fase, by_contraido, validation,
                   calculations, chart_data, analysis_results, returned, contraido_calls>>

AnalyzeByFase ==
    /\ pc = "by_fase"
    /\ IF _analyze_by_fase_raises(operations) THEN Fail
       ELSE /\ by_fase' = Some(_analyze_by_fase(operations))
            /\ pc' = "by_contraido"
            /\ stages' = Append(stages, "_analyze_by_fase")
            /\ calls' = calls \o <<"_analyze_by_fase">>
            /\ UNCHANGED <<df, other, caller, service, standalone, metadata, operations, summary, by_contraido, validation,
                           calculations, chart_data, analysis_results, returned,
                           contraido_calls>>

AnalyzeByContraido ==
    /\ pc = "by_contraido"
    /\ IF _analyze_by_contraido_raises(operations) THEN Fail
       ELSE /\ by_contraido' = Some(_analyze_by_contraido(operations))
            /\ contraido_calls' = Append(contraido_calls, _analyze_by_contraido(operations))
            /\ pc' = "validate"
            /\ stages' = Append(stages, "_analyze_by_contraido")
            /\ calls' = calls \o <<"_analyze_by_contraido">>
            /\ UNCHANGED <<df, other, caller, service, standalone, metadata, operations, summary, by_fase, validation,
                           calculations, chart_data, analysis_results, returned>>

\* a validator that removes the invalid cargos it has reported from self.operations
ValidateBusinessRules_drops_invalid ==
    /\ pc = "validate"
    /\ validation' = Some(validate_business_rules(operations))
    /\ contraido_calls' = Append(contraido_calls, _analyze_by_contraido(operations))
    /\ operations' = SelectSeq(operations, LAMBDA op : ~is_invalid_cargo(op))
    /\ pc' = "totals"
    /\ stages' = Append(stages, "validate_business_rules")
    /\ calls' = calls \o <<"_analyze_by_contraido">>
    /\ UNCHANGED <<df, other, caller, service, standalone, metadata, summary, by_fase, by_contraido, calculations,
                   chart_data, analysis_results, returned>>

ValidateBusinessRules ==
    /\ pc = "validate"
    /\ IF _analyze_by_contraido_raises(operations) THEN Fail
       ELSE /\ validation' = Some(validate_business_rules(operations))
            /\ contraido_calls' = Append(contraido_calls, _analyze_by_contraido(operations))
            /\ pc' = "totals"
            /\ stages' = Append(stages, "validate_business_rules")
            /\ calls' = calls \o <<"_analyze_by_contraido">>
            /\ UNCHANGED <<df, other, caller, service, standalone, metadata, operations, summary, by_fase, by_contraido,
                           calculations, chart_data, analysis_results, returned>>

CalculateTotals ==
    /\ pc = "totals"
    /\ IF _calculate_totals_raises(operations) THEN Fail
       ELSE /\ calculations' = Some(_calculate_totals(operations))
            /\ pc' = "chart"
            /\ stages' = Append(stages, "_calculate_totals")
            /\ calls' = calls \o <<"_calculate_totals">>
            /\ UNCHANGED <<df, other, caller, service, standalone, metadata, operations, summary, by_fase, by_contraido,
                           validation, chart_data, analysis_results, returned,
                           contraido_calls>>

GetChartData ==
    /\ pc = "chart"
    /\ IF get_chart_data_raises(operations) THEN Fail
       ELSE /\ chart_data' = Some(get_chart_data(operations))
            /\ contraido_calls' = Append(contraido_calls, _analyze_by_contraido(operations))
            /\ pc' = "assemble"
            /\ stages' = Append(stages, "get_chart_data")
            /\ calls' = calls \o <<"_analyze_by_fase", "_calculate_totals", "_analyze_by_contraido">>
            /\ UNCHANGED <<df, other, caller, service, standalone, metadata, operations, summary, by_fase, by_contraido,
                           validation, calculations, analysis_results, returned>>

\* self.analysis_results = AnalysisResult(success=True, ...); return it
Assemble ==
    /\ pc = "assemble"
    /\ analysis_results' = Some(SuccessResult)
    /\ returned' = Some(SuccessResult)
    /\ pc' = "succeeded"
    /\ stages' = Append(stages, "AnalysisResult")
    /\ UNCHANGED <<df, other, caller, service, standalone, calls, metadata, operations, locals, contraido_calls>>

Next ==
    \/ Construct
    \/ AnalyzeSummary
    \/ AnalyzeByFase
    \/ AnalyzeByContraido
    \/ ValidateBusinessRules
    \/ CalculateTotals
    \/ GetChartData
    \/ Assemble

Spec == Init /\ [][Next]_vars

-------------------------------------------------------------------------------
\* A second analyzer, on its own table, running between the steps of the first.

\* the attributes of an analyzer on which nothing has run yet
NewAnalyzer(table, meta) ==
    [df |-> table, metadata |-> meta, pc |-> "new", operations |-> <<>>,
     summary |-> None, by_fase |-> None, by_contraido |-> None, validation |-> None,
     calculations |-> None, chart_data |-> None, analysis_results |-> None,
     returned |-> None]

\* the except clause of analyze()
Failed(a) == [a EXCEPT !.pc = "failed", !.returned = Some(FailureResult)]

\* AnalysisResult(success=True, ...) of the values analyze() holds
SuccessResultOf(a) ==
    [success |-> TRUE, analysis_type |-> "contraidos", summary |-> a.summary,
     details |-> Some([by_fase |-> Get(a.by_fase), by_contraido |-> Get(a.by_contraido),
                       calculations |-> Get(a.calculations)]),
     validation |-> a.validation, chart_data |-> a.chart_data,
     metadata |-> a.metadata, error |-> None]

\* the next step of analyzer a: the constructor, then the stages of analyze()
AnalyzerStep(a) ==
    CASE a.pc = "new" ->
            [a EXCEPT !.operations = ParseRows(a.df, <<>>).operations,
                      !.pc = IF ParseRows(a.df, <<>>).raised THEN "raised" ELSE "summary",
                      !.metadata = IF IsNone(@) THEN Some({}) ELSE @,
                      !.analysis_results = None]
      [] a.pc = "summary" ->
            [a EXCEPT !.summary = Some(_analyze_summary(a.operations)), !.pc = "by_fase"]
      [] a.pc = "by_fase" ->
            IF _analyze_by_fase_raises(a.operations) THEN Failed(a)
            ELSE [a EXCEPT !.by_fase = Some(_analyze_by_fase(a.operations)),
                           !.pc = "by_contraido"]
      [] a.pc = "by_contraido" ->
            IF _analyze_by_contraido_raises(a.operations) THEN Failed(a)
            ELSE [a EXCEPT !.by_contraido = Some(_analyze_by_contraido(a.operations)),
                           !.pc = "validate"]
      [] a.pc = "validate" ->
            IF _analyze_by_contraido_raises(a.operations) THEN Failed(a)
            ELSE [a EXCEPT !.validation = Some(validate_business_rules(a.operations)),
                           !.pc = "totals"]
      [] a.pc = "totals" ->
            IF _calculate_totals_raises(a.operations) THEN Failed(a)
            ELSE [a EXCEPT !.calculations = Some(_calculate_totals(a.operations)),
                           !.pc = "chart"]
      [] a.pc = "chart" ->
            IF get_chart_data_raises(a.operations) THEN Failed(a)
            ELSE [a EXCEPT !.chart_data = Some(get_chart_data(a.operations)),
                           !.pc = "assemble"]
      [] a.pc = "assemble" ->
            [a EXCEPT !.analysis_results = Some(SuccessResultOf(a)),
                      !.returned = Some(SuccessResultOf(a)),
                      !.pc = "succeeded"]
      [] OTHER -> a

Stopped(a) == a.pc \in {"succeeded", "failed", "raised"}

\* the attributes an analyzer ends with when it runs with nothing in between
RECURSIVE RunAlone(_)
RunAlone(a) == IF Stopped(a) THEN a ELSE RunAlone(AnalyzerStep(a))

\* the attributes of the first analyzer
Self ==
    [df |-> df, metadata |-> metadata, pc |-> pc, operations |-> operations,
     summary |-> summary, by_fase |-> by_fase, by_contraido |-> by_contraido,
     validation |-> validation, calculations |-> calculations, chart_data |-> chart_data,
     analysis_results |-> analysis_results, returned |-> returned]

\* one call of analyze() on a constructed analyzer, from its first stage to
\* its return: the attributes afterwards, with the result in `returned`
analyze(a) ==
    RunAlone([a EXCEPT !.pc = "summary", !.summary = None, !.by_fase = None,
                       !.by_contraido = None, !.validation = None,
                       !.calculations = None, !.chart_data = None, !.returned = None])

\* a step of the second analyzer that also assigns the operations list of the
\* first, as a list held by the class would be
OtherStep_shares_operations ==
    /\ ~IsNone(other)
    /\ ~Stopped(Get(other))
    /\ other' = Some(AnalyzerStep(Get(other)))
    /\ operations' = AnalyzerStep(Get(other)).operations
    /\ UNCHANGED <<caller, service, standalone, df, metadata, pc, locals, analysis_results, returned, contraido_calls,
                   stages, calls>>

\* a step of the second analyzer: it reads and assigns its own attributes
OtherStep ==
    /\ ~IsNone(other)
    /\ ~Stopped(Get(other))
    /\ other' = Some(AnalyzerStep(Get(other)))
    /\ UNCHANGED <<caller, service, standalone, df, metadata, pc, operations, locals, analysis_results, returned,
                   contraido_calls, stages, calls>>

\* the tables of two analyzers running together: one row each, or two rows
PairRows ==
    {Row(A1, PyFloat(1), "AINP", PyInt(4)),
     Row(A1, PyFloat(2), "M;P", PyInt(4)),
     Row(B2, PyFloat(1), "M;P", PyInt(2)),
     Row(NA, PyFloat(2), "AINP", PyInt(4)),
     Row(A1, PyStr(<<"x">>), "AINP", PyInt(4)),
     Row(A1, PyStr(<<"x">>), "M;P", PyStr(<<"4", ".", "0">>)),
     Row(B2, PyFloat(2), "AINP", PyInf)}

PairTables ==
    {Numbered(<<r>>) : r \in PairRows}
        \cup {Numbered(<<Row(A1, PyFloat(2), "AINP", PyInt(4)),
                         Row(A1, PyFloat(1), "M;P", PyInt(2))>>)}

InitTwo ==
    /\ df \in PairTables
    /\ metadata \in MetadataArgs
    /\ pc = "new"
    /\ operations = <<>>
    /\ summary = None
    /\ by_fase = None
    /\ by_contraido = None
    /\ validation = None
    /\ calculations = None
    /\ chart_data = None
    /\ analysis_results = None
    /\ returned = None
    /\ contraido_calls = <<>>
    /\ stages = <<>>
    /\ calls = <<>>
    /\ ncalls = 0
    /\ last_call = ""
    /\ before = None
    /\ results = <<>>
    /\ raised = None
    /\ _analysis_cache = [analysis |-> <<>>, export |-> <<>>]
    /\ export_dir = {}
    /\ uuids = 0
    /\ response = None
    /\ stored = <<>>
    /\ standalone = NotLoaded
    /\ other \in {Some(NewAnalyzer(t, m)) : t \in PairTables, m \in MetadataArgs}

NextTwo ==
    \/ Construct
    \/ AnalyzeSummary
    \/ AnalyzeByFase
    \/ AnalyzeByContraido
    \/ ValidateBusinessRules
    \/ CalculateTotals
    \/ GetChartData
    \/ Assemble
    \/ OtherStep

SpecTwo == InitTwo /\ [][NextTwo]_vars

-------------------------------------------------------------------------------
\* A caller that invokes the methods of one analyzer, one whole call at a
\* time and in any order.

\* the constructor has returned, and the caller may still call
CallStart(name) ==
    /\ pc = "summary"
    /\ ncalls < MaxCalls
    /\ ncalls' = ncalls + 1
    /\ last_call' = name
    /\ before' = Some([operations |-> operations, metadata |-> metadata,
                       results |-> results])

Returns(value) == returned' = Some(value) /\ raised' = None

Raises(exception) == returned' = None /\ raised' = Some(exception)

untouched ==
    <<df, pc, locals, contraido_calls, stages, calls, other, service, standalone>>

\* the variables of the analyzer and of its caller
vars_of_analyzer ==
    <<df, metadata, pc, operations, locals, analysis_results, returned,
      contraido_calls, stages, calls, other, caller, standalone>>

CallAnalyzeSummary ==
    /\ CallStart("_analyze_summary")
    /\ Returns(_analyze_summary(operations))
    /\ UNCHANGED <<operations, metadata, analysis_results, results, untouched>>

CallAnalyzeByFase ==
    /\ CallStart("_analyze_by_fase")
    /\ IF _analyze_by_fase_raises(operations) THEN Raises("TypeError")
       ELSE Returns(_analyze_by_fase(operations))
    /\ UNCHANGED <<operations, metadata, analysis_results, results, untouched>>

CallAnalyzeByContraido ==
    /\ CallStart("_analyze_by_contraido")
    /\ IF _analyze_by_contraido_raises(operations) THEN Raises("TypeError")
       ELSE Returns(_analyze_by_contraido(operations))
    /\ UNCHANGED <<operations, metadata, analysis_results, results, untouched>>

CallValidateBusinessRules ==
    /\ CallStart("validate_business_rules")
    /\ IF _analyze_by_contraido_raises(operations) THEN Raises("TypeError")
       ELSE Returns(validate_business_rules(operations))
    /\ UNCHANGED <<operations, metadata, analysis_results, results, untouched>>

CallCalculateTotals ==
    /\ CallStart("_calculate_totals")
    /\ IF _calculate_totals_raises(operations) THEN Raises("TypeError")
       ELSE Returns(_calculate_totals(operations))
    /\ UNCHANGED <<operations, metadata, analysis_results, results, untouched>>

CallGetChartData ==
    /\ CallStart("get_chart_data")
    /\ IF get_chart_data_raises(operations) THEN Raises("TypeError")
       ELSE Returns(get_chart_data(operations))
    /\ UNCHANGED <<operations, metadata, analysis_results, results, untouched>>

\* an analyze() that notes in the metadata that it has run
CallAnalyze_tags_metadata ==
    /\ CallStart("analyze")
    /\ returned' = analyze(Self).returned
    /\ raised' = None
    /\ analysis_results' = analyze(Self).analysis_results
    /\ results' = Append(results, Get(analyze(Self).returned))
    /\ metadata' = Some(Get(metadata) \cup {<<"analyzed", "yes">>})
    /\ UNCHANGED <<operations, untouched>>

\* analyze(): the result is returned; a success is also kept in analysis_results
CallAnalyze ==
    /\ CallStart("analyze")
    /\ returned' = analyze(Self).returned
    /\ raised' = None
    /\ analysis_results' = analyze(Self).analysis_results
    /\ results' = Append(results, Get(analyze(Self).returned))
    /\ UNCHANGED <<operations, metadata, untouched>>

\* the analyzer as export_summary and export_full_results find it after
\* "if not self.analysis_results: self.analyze()"
Ensured == IF IsNone(analysis_results) THEN analyze(Self) ELSE Self

CallExportSummary ==
    /\ CallStart("export_summary")
    /\ analysis_results' = Ensured.analysis_results
    /\ IF IsNone(Ensured.analysis_results) THEN Raises("AttributeError")
       ELSE Returns(Get(Ensured.analysis_results).summary)
    /\ UNCHANGED <<operations, metadata, results, untouched>>

CallExportFullResults ==
    /\ CallStart("export_full_results")
    /\ analysis_results' = Ensured.analysis_results
    /\ IF IsNone(Ensured.analysis_results) THEN Raises("AttributeError")
       ELSE Returns([analysis_type |-> Get(Ensured.analysis_results).analysis_type,
                     summary |-> Get(Ensured.analysis_results).summary,
                     details |-> Get(Ensured.analysis_results).details,
                     validation |-> Get(Ensured.analysis_results).validation,
                     chart_data |-> Get(Ensured.analysis_results).chart_data,
                     metadata |-> Get(Ensured.analysis_results).metadata])
    /\ UNCHANGED <<operations, metadata, results, untouched>>

InitCalls ==
    /\ df \in PairTables
    /\ metadata \in MetadataArgs
    /\ pc = "new"
    /\ operations = <<>>
    /\ summary = None
    /\ by_fase = None
    /\ by_contraido = None
    /\ validation = None
    /\ calculations = None
    /\ chart_data = None
    /\ analysis_results = None
    /\ returned = None
    /\ contraido_calls = <<>>
    /\ stages = <<>>
    /\ calls = <<>>
    /\ other = None
    /\ ncalls = 0
    /\ last_call = ""
    /\ before = None
    /\ results = <<>>
    /\ raised = None
    /\ _analysis_cache = [analysis |-> <<>>, export |-> <<>>]
    /\ export_dir = {}
    /\ uuids = 0
    /\ response = None
    /\ stored = <<>>
    /\ standalone = NotLoaded

NextCalls ==
    \/ Construct
    \/ CallAnalyzeSummary
    \/ CallAnalyzeByFase
    \/ CallAnalyzeByContraido
    \/ CallValidateBusinessRules
    \/ CallCalculateTotals
    \/ CallGetChartData
    \/ CallAnalyze
    \/ CallExportSummary
    \/ CallExportFullResults

SpecCalls == InitCalls /\ [][NextCalls]_vars

-------------------------------------------------------------------------------
\* The services and routes of one server process. _analysis_cache holds the
\* cache of each AnalysisService instance, named by the route module that
\* created it; export_dir the files of the export directory; uuids how many
\* identifiers uuid4() has handed out; response what the last route call
\* answered; stored every identifier analyze_file has returned, with the
\* entry it cached and the upload it analyzed.

REQUIRED_COLUMNS ==
    <<"Nº Operación", "Año", "Aplicación", "Nº Contraido", "Importe", "CPGC",
      "FASE", "Fecha", "Tercero", "Descripción", "Estado">>

\* the header cells of a sheet: a name is its words and the blanks around them
Header(names) == [i \in 1..Len(names) |-> <<names[i]>>]

AllColumns == Header(REQUIRED_COLUMNS)

PaddedColumns == [AllColumns EXCEPT ![5] = <<" ", "Importe", " ">>]

NoEstadoColumns == SubSeq(AllColumns, 1, 10)

\* an uploaded file: whether read_excel can read it, its header, its rows
Upload(readable, columns, rows) ==
    [readable |-> readable, columns |-> columns, rows |-> rows]

\* a sheet of one valid row
OneRow == Numbered(<<Row(A1, PyFloat(1), "AINP", PyInt(4))>>)

Uploads ==
    {Upload(TRUE, AllColumns, t) : t \in PairTables \cup {<<>>}}
        \cup {Upload(TRUE, c, OneRow) : c \in {PaddedColumns, NoEstadoColumns}}
        \cup {Upload(FALSE, <<>>, <<>>)}

AnalysisTypes == {None, Some("contraidos"), Some("saldos")}

Formats == {"json", "excel", "pdf"}

\* df.columns.str.strip()
StripColumns(columns) == [i \in 1..Len(columns) |-> Strip(columns[i])]

HasColumn(columns, name) == \E i \in 1..Len(columns) : columns[i] = <<name>>

\* pd.api.types.is_numeric_dtype(df["Importe"])
is_numeric_dtype(rows) ==
    \A i \in 1..Len(rows) : rows[i].importe.type \in {"int", "float", "nan", "inf"}

\* a validation that does not look for rows
validate_structure_ignores_empty(columns, rows) ==
    LET missing == SelectSeq(REQUIRED_COLUMNS, LAMBDA c : ~HasColumn(columns, c))
        e1 == IF missing # <<>> THEN <<"Missing columns">> ELSE <<>>
        e3 == IF e1 = <<>> /\ HasColumn(columns, "Importe") /\ ~is_numeric_dtype(rows)
              THEN e1 \o <<"Column 'Importe' must contain numeric values">> ELSE e1
    IN  [is_valid |-> Len(e3) = 0, errors |-> e3]

validate_structure(columns, rows) ==
    LET missing == SelectSeq(REQUIRED_COLUMNS, LAMBDA c : ~HasColumn(columns, c))
        e1 == IF missing # <<>> THEN <<"Missing columns">> ELSE <<>>
        e2 == IF Len(rows) = 0 \/ Len(columns) = 0
              THEN e1 \o <<"File is empty">> ELSE e1
        e3 == IF e2 = <<>> /\ HasColumn(columns, "Importe") /\ ~is_numeric_dtype(rows)
              THEN e2 \o <<"Column 'Importe' must contain numeric values">> ELSE e2
    IN  [is_valid |-> Len(e3) = 0, errors |-> e3]

ParserResult(success, dataframe, meta, error) ==
    [success |-> success, dataframe |-> dataframe, file_type |-> "contraidos_excel",
     metadata |-> meta, error |-> error]

\* ContraidosExcelParser.parse: every exception ends in a failure result
parse(file) ==
    IF ~file.readable
    THEN ParserResult(FALSE, None, {}, Some(<<"Error parsing file">>))
    ELSE IF ~validate_structure(StripColumns(file.columns), file.rows).is_valid
    THEN ParserResult(FALSE, None, {},
             Some(<<"Invalid file structure">>
                  \o validate_structure(StripColumns(file.columns), file.rows).errors))
    ELSE ParserResult(TRUE, Some(file.rows),
             {<<"parser", "ContraidosExcelParser">>, <<"row_count", Len(file.rows)>>,
              <<"column_count", Len(file.columns)>>},
             None)

\* the analyzer types register_contraidos_plugins registers
Registered == {"contraidos"}

\* ContraidosAnalyzer.can_analyze
can_analyze(columns) ==
    \A c \in {"FASE", "Nº Operación", "Importe"} : HasColumn(StripColumns(columns), c)

\* analyzer_class(df, metadata): the analyzer when its constructor ends
Constructed(parse_result) ==
    AnalyzerStep(NewAnalyzer(Get(parse_result.dataframe), Some(parse_result.metadata)))

\* the cache entry of a result
Entry(analysis_id, result) ==
    [analysis_id |-> analysis_id, analysis_type |-> result.analysis_type,
     status |-> "completed", summary |-> result.summary, details |-> result.details,
     validation |-> result.validation, chart_data |-> result.chart_data,
     metadata |-> result.metadata]

\* str(uuid.uuid4()) that hands out one identifier again and again
uuid4_repeats(issued) == 1

\* str(uuid.uuid4()), when uuid4 has handed out `issued` identifiers
uuid4(issued) == issued + 1

\* what a call of a service method ends with
Return(value) == [raised |-> None, value |-> Some(value)]

Raise(exception) == [raised |-> Some(exception), value |-> None]

\* an analyze_file that goes on with the rows of a file the parser rejected
analyze_file_keeps_unparsed(file, analysis_type) ==
    LET analyzer == Constructed(ParserResult(TRUE, Some(file.rows), {}, None))
        analysis_result == Get(analyze(analyzer).returned)
    IN  IF ~file.readable \/ Len(file.rows) = 0
        THEN Raise("ValueError")
        ELSE IF ~IsNone(analysis_type) /\ Get(analysis_type) \notin Registered
        THEN Raise("ValueError")
        ELSE IF analyzer.pc = "raised"
        THEN Raise("OverflowError")
        ELSE IF ~analysis_result.success
        THEN Raise("ValueError")
        ELSE Return(analysis_result)

\* AnalysisService.analyze_file up to the result it is about to store
analyze_file(file, analysis_type) ==
    LET parse_result == parse(file)
        analyzer == Constructed(parse_result)
        analysis_result == Get(analyze(analyzer).returned)
    IN  IF ~parse_result.success
        THEN Raise("ValueError")
        ELSE IF ~IsNone(analysis_type) /\ Get(analysis_type) \notin Registered
        THEN Raise("ValueError")
        ELSE IF IsNone(analysis_type) /\ ~can_analyze(file.columns)
        THEN Raise("ValueError")
        ELSE IF analyzer.pc = "raised"
        THEN Raise("OverflowError")
        ELSE IF ~analysis_result.success
        THEN Raise("ValueError")
        ELSE Return(analysis_result)

\* self._analysis_cache[analysis_id] = entry
Put(cache, analysis_id, entry) ==
    [a \in DOMAIN cache \cup {analysis_id} |->
        IF a = analysis_id THEN entry ELSE cache[a]]

\* AnalysisService.get_analysis
get_analysis(cache, analysis_id) ==
    IF analysis_id \in DOMAIN cache THEN Some(cache[analysis_id]) ELSE None

\* AnalysisService.get_analysis_summary
get_analysis_summary(cache, analysis_id) ==
    IF analysis_id \notin DOMAIN cache THEN None
    ELSE Some([analysis_id |-> cache[analysis_id].analysis_id,
               analysis_type |-> cache[analysis_id].analysis_type,
               status |-> cache[analysis_id].status,
               summary |-> cache[analysis_id].summary])

\* AnalysisService.list_analyses
list_analyses(cache) ==
    {[analysis_id |-> a, analysis_type |-> cache[a].analysis_type,
      status |-> cache[a].status] : a \in DOMAIN cache}

\* the identifiers a request may name: those handed out, and one more
Ids == 1..(MaxUuids + 1)

\* the route analyze_file, for a file that get_file_path found
AnalyzeUpload(file, analysis_type) ==
    LET outcome == analyze_file(file, analysis_type)
        analysis_id == uuid4(uuids)
        request == [route |-> "analyze_file", found |-> TRUE, file |-> file,
                    analysis_type |-> analysis_type, parse_result |-> parse(file),
                    raised |-> outcome.raised,
                    cache_before |-> _analysis_cache.analysis]
    IN  IF ~IsNone(outcome.raised)
        THEN /\ response' = Some(request @@
                    [status |-> IF outcome.raised = Some("ValueError")
                                THEN 400 ELSE 500])
             /\ UNCHANGED <<_analysis_cache, uuids, stored>>
        ELSE /\ uuids' = uuids + 1
             /\ _analysis_cache' =
                   [_analysis_cache EXCEPT !.analysis =
                       Put(@, analysis_id, Entry(analysis_id, Get(outcome.value)))]
             /\ stored' = Append(stored,
                   [analysis_id |-> analysis_id, file |-> file,
                    entry |-> Entry(analysis_id, Get(outcome.value))])
             /\ response' = Some(request @@
                    [status |-> 200, analysis_id |-> analysis_id,
                     body |-> _analysis_cache'.analysis[analysis_id]])

\* POST /analysis/{upload_id}
PostAnalysis ==
    \E file \in Uploads \cup {None}, analysis_type \in AnalysisTypes :
        /\ uuids < MaxUuids
        /\ IF file = None
           THEN /\ response' = Some([route |-> "analyze_file", status |-> 404,
                                     found |-> FALSE])
                /\ UNCHANGED <<_analysis_cache, uuids, stored>>
           ELSE AnalyzeUpload(file, analysis_type)
        /\ UNCHANGED <<export_dir, vars_of_analyzer>>

\* GET /analysis/{analysis_id}
GetAnalysis ==
    \E analysis_id \in Ids :
        /\ response' =
              Some([route |-> "get_analysis", analysis_id |-> analysis_id,
                    status |-> IF IsNone(get_analysis(_analysis_cache.analysis, analysis_id))
                               THEN 404 ELSE 200,
                    body |-> get_analysis(_analysis_cache.analysis, analysis_id)])
        /\ UNCHANGED <<_analysis_cache, export_dir, uuids, stored, vars_of_analyzer>>

\* GET /analysis/{analysis_id}/summary
GetAnalysisSummary ==
    \E analysis_id \in Ids :
        /\ response' =
              Some([route |-> "get_analysis_summary", analysis_id |-> analysis_id,
                    status |-> IF IsNone(get_analysis_summary(_analysis_cache.analysis,
                                                              analysis_id))
                               THEN 404 ELSE 200,
                    body |-> get_analysis_summary(_analysis_cache.analysis, analysis_id)])
        /\ UNCHANGED <<_analysis_cache, export_dir, uuids, stored, vars_of_analyzer>>

\* GET /analysis
ListAnalyses ==
    /\ response' = Some([route |-> "list_analyses", status |-> 200,
                         body |-> list_analyses(_analysis_cache.analysis)])
    /\ UNCHANGED <<_analysis_cache, export_dir, uuids, stored, vars_of_analyzer>>

\* the body of export_analysis: what it answers and the file it has written
export_analysis(cache, analysis_id, format, writes, issued) ==
    IF IsNone(get_analysis(cache, analysis_id))
    THEN [status |-> 404, detail |-> "Analysis not found", written |-> {}]
    ELSE IF format \in {"json", "excel"} /\ writes
    THEN [status |-> 200, detail |-> "", export_id |-> uuid4(issued),
          written |-> {<<uuid4(issued), IF format = "json" THEN ".json" ELSE ".xlsx">>}]
    ELSE [status |-> 500, detail |-> "Export error", written |-> {}]

\* POST /export/{analysis_id}: the 400 of an unsupported format is raised
\* inside the try whose except answers 500
ExportAnalysis ==
    \E analysis_id \in Ids, format \in Formats, writes \in BOOLEAN :
        /\ uuids < MaxUuids
        /\ response' =
              Some([route |-> "export_analysis", analysis_id |-> analysis_id,
                    format |-> format, writes |-> writes]
                   @@ export_analysis(_analysis_cache.export, analysis_id, format,
                                      writes, uuids))
        /\ export_dir' = export_dir
              \cup export_analysis(_analysis_cache.export, analysis_id, format,
                                   writes, uuids).written
        /\ uuids' = uuids
              + Cardinality(export_analysis(_analysis_cache.export, analysis_id, format,
                                            writes, uuids).written)
        /\ UNCHANGED <<_analysis_cache, stored, vars_of_analyzer>>

\* GET /export/download/{export_id}
DownloadExport ==
    \E export_id \in Ids :
        /\ response' =
              Some([route |-> "download_export", export_id |-> export_id,
                    status |-> IF \E ext \in {".json", ".xlsx", ".pdf"} :
                                      <<export_id, ext>> \in export_dir
                               THEN 200 ELSE 404])
        /\ UNCHANGED <<_analysis_cache, export_dir, uuids, stored, vars_of_analyzer>>

InitService ==
    /\ df = <<>>
    /\ metadata = None
    /\ pc = "new"
    /\ operations = <<>>
    /\ summary = None
    /\ by_fase = None
    /\ by_contraido = None
    /\ validation = None
    /\ calculations = None
    /\ chart_data = None
    /\ analysis_results = None
    /\ returned = None
    /\ contraido_calls = <<>>
    /\ stages = <<>>
    /\ calls = <<>>
    /\ other = None
    /\ ncalls = 0
    /\ last_call = ""
    /\ before = None
    /\ results = <<>>
    /\ raised = None
    /\ _analysis_cache = [analysis |-> <<>>, export |-> <<>>]
    /\ export_dir = {}
    /\ uuids = 0
    /\ response = None
    /\ stored = <<>>
    /\ standalone = NotLoaded

NextService ==
    \/ PostAnalysis
    \/ GetAnalysis
    \/ GetAnalysisSummary
    \/ ListAnalyses
    \/ ExportAnalysis
    \/ DownloadExport

SpecService == InitService /\ [][NextService]_vars

-------------------------------------------------------------------------------
\* The standalone analyzer (src/contraidos_analyzer.py) on the same table.
\* Its Operation class and its _parse_operations, _analyze_summary,
\* _get_date_range, _analyze_by_fase, _analyze_by_contraido and
\* _calculate_totals are those of the service, statement for statement.

UpperLetters ==
    <<"A", "B", "C", "D", "E", "F", "G", "H", "I", "J", "K", "L", "M",
      "N", "O", "P", "Q", "R", "S", "T", "U", "V", "W", "X", "Y", "Z">>

LowerLetters ==
    <<"a", "b", "c", "d", "e", "f", "g", "h", "i", "j", "k", "l", "m",
      "n", "o", "p", "q", "r", "s", "t", "u", "v", "w", "x", "y", "z">>

\* str.lower()
Lower(cs) ==
    [i \in 1..Len(cs) |->
        IF \E k \in 1..26 : UpperLetters[k] = cs[i]
        THEN LowerLetters[CHOOSE k \in 1..26 : UpperLetters[k] = cs[i]]
        ELSE cs[i]]

Anula == <<"a", "n", "u", "l", "a">>

\* a search for the keyword as it is written in the description
has_cancellation_literal(ops, op) ==
    \E i \in 1..Len(ops) :
        /\ is_cargo(ops[i])
        /\ ops[i].num_contraido = op.num_contraido
        /\ ops[i].num_operacion # op.num_operacion
        /\ Contains(ops[i].descripcion, Anula)

\* any(other.is_cargo and ... and 'anula' in other.descripcion.lower() ...)
has_cancellation(ops, op) ==
    \E i \in 1..Len(ops) :
        /\ is_cargo(ops[i])
        /\ ops[i].num_contraido = op.num_contraido
        /\ ops[i].num_operacion # op.num_operacion
        /\ Contains(Lower(ops[i].descripcion), Anula)

mp_without_cancel(ops) ==
    SelectSeq(SelectSeq(ops, is_invalid_cargo), LAMBDA op : ~has_cancellation(ops, op))

StandaloneIssue(op) ==
    [type |-> "INVALID_CARGO", operation |-> op.num_operacion,
     contraido |-> op.num_contraido, amount |-> op.importe, estado |-> op.estado,
     message |-> <<"Operacion M;P con estado '", op.estado, "' != 4 (incompleta/cancelada)">>]

MpIssue(op) ==
    [type |-> "MP_WITHOUT_CANCELLATION", operation |-> op.num_operacion,
     contraido |-> op.num_contraido, amount |-> op.importe,
     message |-> <<"Operacion M;P invalida sin anulacion detectada">>]

StandaloneIssues(ops) ==
    [i \in 1..Len(SelectSeq(ops, is_invalid_cargo)) |->
        StandaloneIssue(SelectSeq(ops, is_invalid_cargo)[i])]
    \o [i \in 1..Len(mp_without_cancel(ops)) |-> MpIssue(mp_without_cancel(ops)[i])]

StandaloneWarning(group) ==
    [type |-> IF group.net_balance > 0 THEN "POSITIVE_BALANCE" ELSE "NEGATIVE_BALANCE",
     contraido |-> group.num_contraido, balance |-> group.net_balance,
     message |-> <<IF group.net_balance > 0 THEN "Contraido con saldo positivo: "
                   ELSE "Contraido con saldo negativo: ", group.net_balance>>]

StandaloneWarnings(groups) ==
    [i \in 1..Len(SelectSeq(groups, Significant)) |->
        StandaloneWarning(SelectSeq(groups, Significant)[i])]

_validate_operations(ops) ==
    ValidationReport(StandaloneIssues(ops), StandaloneWarnings(_analyze_by_contraido(ops)))

\* the results dictionary of the standalone analyze()
StandaloneResults(ops) ==
    [summary |-> _analyze_summary(ops), by_fase |-> _analyze_by_fase(ops),
     by_contraido |-> _analyze_by_contraido(ops),
     validation |-> _validate_operations(ops),
     calculations |-> _calculate_totals(ops)]

\* ContraidosAnalyzer(filepath): load_file reads the table and converts its
\* rows; whatever is raised is raised again as Exception
StandaloneLoad ==
    /\ standalone.pc = "new"
    /\ standalone' =
          IF ParseRows(df, <<>>).raised
          THEN [standalone EXCEPT !.pc = "raised",
                                  !.operations = ParseRows(df, <<>>).operations,
                                  !.raised = Some("Exception")]
          ELSE [standalone EXCEPT !.pc = "loaded",
                                  !.operations = ParseRows(df, <<>>).operations]
    /\ UNCHANGED <<df, metadata, pc, operations, locals, analysis_results, returned,
                   contraido_calls, stages, calls, other, caller, service>>

\* analyze() of the standalone analyzer: nothing catches what a stage raises
StandaloneAnalyze ==
    /\ standalone.pc = "loaded"
    /\ standalone' =
          IF standalone.operations = <<>>
          THEN [standalone EXCEPT !.pc = "raised", !.raised = Some("ValueError")]
          ELSE IF \/ _analyze_by_fase_raises(standalone.operations)
                  \/ _analyze_by_contraido_raises(standalone.operations)
                  \/ _calculate_totals_raises(standalone.operations)
          THEN [standalone EXCEPT !.pc = "raised", !.raised = Some("TypeError")]
          ELSE [standalone EXCEPT !.pc = "analyzed",
                   !.analysis_results = Some(StandaloneResults(standalone.operations))]
    /\ UNCHANGED <<df, metadata, pc, operations, locals, analysis_results, returned,
                   contraido_calls, stages, calls, other, caller, service>>

\* a description cell
Text(descripcion) == PyStr(descripcion)

LongText == Text([i \in 1..(MaxDescripcion + 1) |-> "x"])

ComparedRow(num_contraido, importe, fase, estado, descripcion) ==
    [Row(num_contraido, importe, fase, estado) EXCEPT !.descripcion = descripcion]

ComparedRows ==
    {ComparedRow(A1, PyFloat(2), "M;P", PyInt(2), NA),
     ComparedRow(A1, PyFloat(1), "M;P", PyInt(4), Text(<<"s", "e", " ">> \o Anula)),
     ComparedRow(A1, PyFloat(1), "M;P", PyInt(4), Text(<<"A", "N", "U", "L", "A", "D", "A">>)),
     ComparedRow(B2, PyFloat(1), "M;P", PyInt(4), Text(Anula)),
     ComparedRow(A1, PyFloat(3), "AINP", PyInt(4), Text(Anula)),
     ComparedRow(A1, PyFloat(1), "M;P", PyInt(2), Text(Anula)),
     ComparedRow(B2, PyFloat(1), "M;P", PyInt(2), LongText),
     ComparedRow(A1, PyStr(<<"x">>), "AINP", PyInt(4), NA),
     ComparedRow(B2, PyFloat(2), "AINP", PyInf, NA)}

\* tables with distinct operation numbers, one whose two rows share theirs,
\* and the table without rows
ComparedTables ==
    {Numbered(rows) : rows \in SeqUpTo(ComparedRows, MaxCompared)}
        \cup {<<ComparedRow(A1, PyFloat(2), "M;P", PyInt(2), NA),
                ComparedRow(A1, PyFloat(1), "M;P", PyInt(4), Text(Anula))>>}

InitCompare ==
    /\ df \in ComparedTables
    /\ metadata = Some({<<"file_type", "contraidos_excel">>})
    /\ pc = "new"
    /\ operations = <<>>
    /\ summary = None
    /\ by_fase = None
    /\ by_contraido = None
    /\ validation = None
    /\ calculations = None
    /\ chart_data = None
    /\ analysis_results = None
    /\ returned = None
    /\ contraido_calls = <<>>
    /\ stages = <<>>
    /\ calls = <<>>
    /\ other = None
    /\ ncalls = 0
    /\ last_call = ""
    /\ before = None
    /\ results = <<>>
    /\ raised = None
    /\ _analysis_cache = [analysis |-> <<>>, export |-> <<>>]
    /\ export_dir = {}
    /\ uuids = 0
    /\ response = None
    /\ stored = <<>>
    /\ standalone = NotLoaded

NextCompare ==
    \/ Construct
    \/ AnalyzeSummary
    \/ AnalyzeByFase
    \/ AnalyzeByContraido
    \/ ValidateBusinessRules
    \/ CalculateTotals
    \/ GetChartData
    \/ Assemble
    \/ StandaloneLoad
    \/ StandaloneAnalyze

SpecCompare == InitCompare /\ [][NextCompare]_vars

------------------------------------------------------------------------------
\* Properties

\* the operations of contract `c`, in input order
RECURSIVE OfContraido(_, _)
OfContraido(ops, c) ==
    IF ops = <<>> THEN <<>>
    ELSE IF Head(ops).num_contraido = c
         THEN <<Head(ops)>> \o OfContraido(Tail(ops), c)
         ELSE OfContraido(Tail(ops), c)

RECURSIVE SumEffective(_)
SumEffective(ops) ==
    IF ops = <<>> THEN 0 ELSE effective_amount(Head(ops)) + SumEffective(Tail(ops))

\* the index of the first operation of contract `c`
FirstSeen(ops, c) == CHOOSE i \in 1..Len(ops) :
    /\ ops[i].num_contraido = c
    /\ \A j \in 1..(i - 1) : ops[j].num_contraido # c

BoolCount(b) == IF b THEN 1 ELSE 0

\* C1: constructing the analyzer and calling analyze() never raises; a failure
\* in any stage, row classification included, ends in a returned result with
\* success=false and a non-empty error, a success in one with success=true
\* and no error.
C1_NeverRaises ==
    /\ pc # "raised"
    /\ pc = "failed" =>
          /\ ~IsNone(returned)
          /\ ~Get(returned).success
          /\ ~IsNone(Get(returned).error)
          /\ Get(Get(returned).error) # ""
    /\ pc = "succeeded" =>
          /\ ~IsNone(returned)
          /\ Get(returned).success
          /\ IsNone(Get(returned).error)

\* C2: every Operation is in exactly one of the classes arqueo, valid cargo,
\* invalid cargo, neither; arqueo and cargo exclude each other, and a cargo is
\* valid or invalid but not both.
C2_ExactlyOneClass ==
    \A i \in 1..Len(operations) :
        LET op == operations[i]
        IN  /\ BoolCount(is_arqueo(op)) + BoolCount(is_valid_cargo(op))
                 + BoolCount(is_invalid_cargo(op))
                 + BoolCount(~is_arqueo(op) /\ ~is_cargo(op)) = 1
            /\ ~(is_arqueo(op) /\ is_cargo(op))
            /\ is_cargo(op) => (is_valid_cargo(op) # is_invalid_cargo(op))

C2_Witness ==
    /\ pc = "succeeded"
    /\ \E i \in 1..Len(operations) :
          /\ is_cargo(operations[i])
          /\ operations[i].estado.type = "str"
          /\ operations[i].estado.chars # <<>>

C4_EmptyContraidoExcluded ==
    pc = "succeeded" =>
        LET groups == Get(by_contraido)
            fase == Get(by_fase)
            totals == Get(calculations)
            ids == {operations[i].num_contraido : i \in 1..Len(operations)} \ {<<>>}
        IN  /\ \A k \in 1..Len(groups) :
                 LET own == OfContraido(operations, groups[k].num_contraido)
                 IN  /\ groups[k].num_contraido # <<>>
                     /\ NumOperaciones(groups[k].operations) = NumOperaciones(own)
                     /\ groups[k].total_arqueo = SumImporte(SelectSeq(own, is_arqueo))
                     /\ groups[k].total_cargo_valid = SumImporte(SelectSeq(own, is_valid_cargo))
                     /\ groups[k].total_cargo_invalid = SumImporte(SelectSeq(own, is_invalid_cargo))
            /\ {groups[k].num_contraido : k \in 1..Len(groups)} = ids
            /\ Len(groups) = Cardinality(ids)
            /\ totals.total_arqueo_positive = SumImporte(SelectSeq(operations, is_arqueo))
            /\ totals.total_cargo_negative = SumImporte(SelectSeq(operations, is_valid_cargo))
            /\ totals.total_cargo_invalid = SumImporte(SelectSeq(operations, is_invalid_cargo))
            /\ fase.AINP.count = Len(SelectSeq(operations, is_arqueo))
            /\ fase.AINP.total_amount = SumImporte(SelectSeq(operations, is_arqueo))
            /\ fase.AINP.operations = NumOperaciones(SelectSeq(operations, is_arqueo))
            /\ fase.MP.count = Len(SelectSeq(operations, is_cargo))
            /\ fase.MP.valid.count = Len(SelectSeq(operations, is_valid_cargo))
            /\ fase.MP.valid.total_amount = SumImporte(SelectSeq(operations, is_valid_cargo))
            /\ fase.MP.valid.operations = NumOperaciones(SelectSeq(operations, is_valid_cargo))
            /\ fase.MP.invalid.count = Len(SelectSeq(operations, is_invalid_cargo))
            /\ fase.MP.invalid.total_amount = SumImporte(SelectSeq(operations, is_invalid_cargo))
            /\ fase.MP.invalid.operations
                 = NumOperaciones(SelectSeq(operations, is_invalid_cargo))

C4_Witness ==
    /\ pc = "succeeded"
    /\ Len(Get(by_contraido)) = 1
    /\ \E i, j \in 1..Len(operations) :
          /\ ~HasContraido(operations[i])
          /\ is_arqueo(operations[i])
          /\ ~HasContraido(operations[j])
          /\ is_invalid_cargo(operations[j])

\* C5: the list _analyze_by_contraido returns is in non-increasing order of
\* absolute net balance, and groups of equal absolute net balance are in the
\* order in which their contract identifiers were first seen in the input.
C5_SortedStable ==
    ~IsNone(by_contraido) =>
        LET groups == Get(by_contraido)
        IN  \A i, j \in 1..Len(groups) :
                i < j =>
                    /\ Abs(groups[i].net_balance) >= Abs(groups[j].net_balance)
                    /\ Abs(groups[i].net_balance) = Abs(groups[j].net_balance) =>
                          FirstSeen(operations, groups[i].num_contraido)
                              < FirstSeen(operations, groups[j].num_contraido)

C5_Witness ==
    /\ ~IsNone(by_contraido)
    /\ LET groups == Get(by_contraido)
       IN  /\ Len(groups) = 2
           /\ groups[1].net_balance = 0 - groups[2].net_balance
           /\ groups[1].net_balance < 0

\* C6: every call of _analyze_by_contraido on one analyzer returns the same
\* list: the ones the validator and the chart formatter compute are the one
\* placed in details.by_contraido.
C6_ByContraidoIdempotent ==
    /\ \A i, j \in 1..Len(contraido_calls) : contraido_calls[i] = contraido_calls[j]
    /\ ~IsNone(by_contraido) =>
          \A i \in 1..Len(contraido_calls) : contraido_calls[i] = Get(by_contraido)
    /\ pc = "succeeded" =>
          /\ Len(contraido_calls) = 3
          /\ \A i \in 1..3 :
                contraido_calls[i] = Get(Get(returned).details).by_contraido

C6_Witness ==
    /\ pc = "succeeded"
    /\ Len(contraido_calls) = 3
    /\ Len(contraido_calls[3]) = 2
    /\ \E k \in 1..2 : contraido_calls[3][k].has_invalid_operations

\* the operation of `ops` that carries the number `n`
OperationNumbered(ops, n) == ops[CHOOSE i \in 1..Len(ops) : ops[i].num_operacion = n]

RECURSIVE IssueOperations(_)
IssueOperations(issues) ==
    IF issues = <<>> THEN <<>> ELSE <<Head(issues).operation>> \o IssueOperations(Tail(issues))

\* C7: validate_business_rules emits one INVALID_CARGO issue of severity
\* critical for each invalid cargo and no other issue, each with the number,
\* contract, amount and status of its operation, in the order of the input.
C7_OneIssuePerInvalidCargo ==
    ~IsNone(validation) =>
        LET issues == Get(validation).issues
        IN  /\ Len(issues) = Cardinality({i \in 1..Len(operations) :
                                             is_invalid_cargo(operations[i])})
            /\ IssueOperations(issues)
                 = NumOperaciones(SelectSeq(operations, is_invalid_cargo))
            /\ \A k \in 1..Len(issues) :
                  LET op == OperationNumbered(operations, issues[k].operation)
                  IN  /\ issues[k].type = "INVALID_CARGO"
                      /\ issues[k].severity = "critical"
                      /\ issues[k].contraido = op.num_contraido
                      /\ issues[k].amount = op.importe
                      /\ issues[k].estado = op.estado

C7_Witness ==
    /\ ~IsNone(validation)
    /\ Len(Get(validation).issues) = 2
    /\ Len(operations) = 3
    /\ is_valid_cargo(operations[2])

\* the groups of `groups` whose absolute net balance is above 0.01, in order
RECURSIVE AboveTolerance(_)
AboveTolerance(groups) ==
    IF groups = <<>> THEN <<>>
    ELSE IF Head(groups).net_balance > Tolerance \/ Head(groups).net_balance < 0 - Tolerance
         THEN <<Head(groups)>> \o AboveTolerance(Tail(groups))
         ELSE AboveTolerance(Tail(groups))

\* C8: validate_business_rules emits one warning for each group whose
\* absolute net balance is strictly above 0.01 and none for any other group,
\* POSITIVE_BALANCE or NEGATIVE_BALANCE by the sign of the balance, with the
\* signed balance, in the order of the by-contract list.
C8_OneWarningPerUnbalancedGroup ==
    ~IsNone(validation) =>
        LET warnings == Get(validation).warnings
            expected == AboveTolerance(Get(by_contraido))
        IN  /\ Len(warnings) = Len(expected)
            /\ \A k \in 1..Len(warnings) :
                  /\ k <= Len(expected)
                  /\ warnings[k].contraido = expected[k].num_contraido
                  /\ warnings[k].balance = expected[k].net_balance
                  /\ warnings[k].severity = "warning"
                  /\ warnings[k].type =
                        IF expected[k].net_balance > 0 THEN "POSITIVE_BALANCE"
                        ELSE "NEGATIVE_BALANCE"

C8_Witness ==
    /\ ~IsNone(validation)
    /\ Len(Get(by_contraido)) = 2
    /\ Get(by_contraido)[2].net_balance = Tolerance
    /\ Len(Get(validation).warnings) = 1
    /\ Get(validation).warnings[1].type = "NEGATIVE_BALANCE"

\* C9: in every validation report is_valid is true exactly when there is no
\* issue, whatever the warnings; total_issues and total_warnings are the
\* lengths of the two lists.
C9_ValidIffNoIssues ==
    ~IsNone(validation) =>
        LET report == Get(validation)
        IN  /\ report.is_valid <=> (Len(report.issues) = 0)
            /\ report.total_issues = Len(report.issues)
            /\ report.total_warnings = Len(report.warnings)

C9_Witness ==
    /\ ~IsNone(validation)
    /\ Get(validation).is_valid
    /\ Len(Get(validation).warnings) = 2

\* C10: percentage_invalid is total_cargo_invalid / (total_cargo_valid +
\* total_cargo_invalid) x 100 whenever that denominator is not zero, and 0
\* when it is zero.
C10_PercentageInvalid ==
    ~IsNone(calculations) =>
        LET valid == SumImporte(SelectSeq(operations, is_valid_cargo))
            invalid == SumImporte(SelectSeq(operations, is_invalid_cargo))
            pct == Get(calculations).percentage_invalid
        IN  IF valid + invalid # 0
            THEN pct.den # 0 /\ RatioEq(pct, Ratio(invalid * 100, valid + invalid))
            ELSE pct.den # 0 /\ pct.num = 0

NotInvalidCargo(op) == ~is_invalid_cargo(op)

\* the group of contract `c` among `groups`, a fresh group if there is none
GroupOf(groups, c) ==
    IF GroupIndex(groups, c) = 0 THEN NewGroup(c) ELSE groups[GroupIndex(groups, c)]

WarningSet(groups) == {Warnings(groups)[i] : i \in 1..Len(Warnings(groups))}

\* C11: invalid cargos never contribute to balances. The net balance, the
\* arqueo total and the valid cargo total of every group, and those of the
\* whole dataset, the by-phase arqueo and valid cargo figures and the balance
\* warnings are the ones of the same operations without their invalid
\* cargos, whatever the amounts of these; an arqueo of amount a and a cargo of
\* amount a on one contract give net balance 0 if the cargo is valid and a
\* if it is not.
C11_InvalidCargosDoNotCount ==
    (~IsNone(by_contraido) /\ ~IsNone(calculations)) =>
        LET kept == SelectSeq(operations, NotInvalidCargo)
            groups == Get(by_contraido)
            without == _analyze_by_contraido(kept)
        IN  /\ \A i \in 1..Len(groups) :
                    LET g == groups[i]
                        h == GroupOf(without, g.num_contraido)
                    IN  /\ g.net_balance = h.net_balance
                        /\ g.total_arqueo = h.total_arqueo
                        /\ g.total_cargo_valid = h.total_cargo_valid
            /\ Get(calculations).net_balance = _calculate_totals(kept).net_balance
            /\ Get(calculations).total_arqueo_positive =
                    _calculate_totals(kept).total_arqueo_positive
            /\ Get(calculations).total_cargo_negative =
                    _calculate_totals(kept).total_cargo_negative
            /\ Get(by_fase).AINP = _analyze_by_fase(kept).AINP
            /\ Get(by_fase).MP.valid = _analyze_by_fase(kept).MP.valid
            /\ WarningSet(groups) = WarningSet(without)
            /\ (/\ Len(operations) = 2
                /\ is_arqueo(operations[1]) /\ is_cargo(operations[2])
                /\ HasContraido(operations[1])
                /\ operations[1].num_contraido = operations[2].num_contraido
                /\ operations[1].importe = operations[2].importe)
               => groups[1].net_balance =
                    IF is_valid_cargo(operations[2]) THEN 0 ELSE Num(operations[1].importe)

\* C11 as stated: besides the above, only total_cargo_invalid, the invalid
\* counts, the group flags and the issue list differ from the analysis of
\* the operations without their invalid cargos; the number of operations and
\* of cargos, the groups and the operations listed in each do not.
C11_OnlyInvalidFiguresChange ==
    /\ C11_InvalidCargosDoNotCount
    /\ (~IsNone(summary) /\ ~IsNone(by_fase) /\ ~IsNone(by_contraido)) =>
            LET kept == SelectSeq(operations, NotInvalidCargo)
                groups == Get(by_contraido)
                without == _analyze_by_contraido(kept)
            IN  /\ Get(summary).total_operations = _analyze_summary(kept).total_operations
                /\ Get(summary).cargo_count = _analyze_summary(kept).cargo_count
                /\ Get(by_fase).MP.count = _analyze_by_fase(kept).MP.count
                /\ Len(groups) = Len(without)
                /\ \A i \in 1..Len(groups) :
                        groups[i].operations =
                            GroupOf(without, groups[i].num_contraido).operations

\* an arqueo and an invalid cargo of the same amount on one contract, analyzed
C11_Witness ==
    /\ ~IsNone(by_contraido) /\ ~IsNone(calculations)
    /\ Len(operations) = 2
    /\ is_arqueo(operations[1]) /\ is_invalid_cargo(operations[2])
    /\ HasContraido(operations[1])
    /\ operations[1].num_contraido = operations[2].num_contraido
    /\ operations[1].importe = operations[2].importe
    /\ Get(by_contraido)[1].total_cargo_invalid > 0
    /\ Get(calculations).net_balance = Num(operations[1].importe)

\* C12: the top_contraidos series of the returned chart data has length
\* min(10, number of contract groups), and its i-th entry is the contract
\* identifier and the net balance of the i-th group of details.by_contraido.
C12_TopIsPrefix ==
    pc = "succeeded" =>
        LET top == Get(Get(returned).chart_data).top_contraidos
            groups == Get(Get(returned).details).by_contraido
        IN  /\ Len(top) = Min(10, Len(groups))
            /\ \A i \in 1..Len(top) :
                    top[i] = [contraido |-> groups[i].num_contraido,
                              balance |-> groups[i].net_balance]

\* more than ten groups of different balances, ten of them charted
C12_Witness ==
    /\ pc = "succeeded"
    /\ Len(Get(Get(returned).details).by_contraido) > 10
    /\ Len(Get(Get(returned).chart_data).top_contraidos) = 10
    /\ Get(Get(returned).chart_data).top_contraidos[1].balance
            > Get(Get(returned).chart_data).top_contraidos[10].balance

-------------------------------------------------------------------------------
\* The two date shapes of the specification, read off the string itself.

\* hh:mm:ss
IsTimeOfDay(cs) ==
    /\ Len(cs) = 8
    /\ cs[3] = ":" /\ cs[6] = ":"
    /\ AllDigits(SubSeq(cs, 1, 2)) /\ AllDigits(SubSeq(cs, 4, 5)) /\ AllDigits(SubSeq(cs, 7, 8))

\* YYYY-MM-DD, alone or followed by a blank and a time of day
IsoShape(cs) ==
    /\ Len(cs) >= 10
    /\ AllDigits(SubSeq(cs, 1, 4)) /\ cs[5] = "-"
    /\ AllDigits(SubSeq(cs, 6, 7)) /\ cs[8] = "-"
    /\ AllDigits(SubSeq(cs, 9, 10))
    /\ (Len(cs) = 10 \/ (Len(cs) = 19 /\ cs[11] = " " /\ IsTimeOfDay(SubSeq(cs, 12, 19))))

\* DD/MM/YYYY
DmyShape(cs) ==
    /\ Len(cs) = 10
    /\ AllDigits(SubSeq(cs, 1, 2)) /\ cs[3] = "/"
    /\ AllDigits(SubSeq(cs, 4, 5)) /\ cs[6] = "/"
    /\ AllDigits(SubSeq(cs, 7, 10))

\* the calendar date a string of one of the two shapes denotes, if it is one
ShapeDate(cs) ==
    IF IsoShape(cs) THEN DateOfFields(SubSeq(cs, 1, 4), SubSeq(cs, 6, 7), SubSeq(cs, 9, 10))
    ELSE IF DmyShape(cs) THEN DateOfFields(SubSeq(cs, 7, 10), SubSeq(cs, 4, 5), SubSeq(cs, 1, 2))
    ELSE NoDate

ShapeDates(ops) == {ShapeDate(ops[i].fecha) : i \in {j \in 1..Len(ops) : ShapeDate(ops[j].fecha).ok}}

\* C13: every operation date of the shape YYYY-MM-DD (bare, or followed by
\* any time of day) or DD/MM/YYYY that is a calendar date contributes to the
\* date range of the summary: earliest is the minimum and latest the maximum
\* of these dates, each rendered as YYYY-MM-DD.
C13_DateShapesAccepted ==
    (~IsNone(summary) /\ ShapeDates(operations) # {}) =>
        LET dates == ShapeDates(operations)
            range == Get(summary).date_range
        IN  /\ range.earliest =
                    Some(Strftime(CHOOSE a \in dates : \A b \in dates : ~DateBefore(b, a)))
            /\ range.latest =
                    Some(Strftime(CHOOSE a \in dates : \A b \in dates : ~DateBefore(a, b)))

\* C14: a date of another shape, an empty date and a day that no calendar has
\* are skipped without an error; the date range is the pair of nulls exactly
\* when no operation has a date of one of the two shapes that is a calendar
\* date, and otherwise earliest is not after latest.
C14_NullRangeIffNoDate ==
    /\ (pc = "failed" => \E i \in 1..Len(operations) : ~IsNumber(operations[i].importe))
    /\ ~IsNone(summary) =>
            LET range == Get(summary).date_range
            IN  /\ IsNone(range.earliest) <=> IsNone(range.latest)
                /\ IsNone(range.earliest) <=> ShapeDates(operations) = {}
                /\ ~IsNone(range.earliest) =>
                        ~DateBefore(StrptimeYmd(Get(range.latest)),
                                    StrptimeYmd(Get(range.earliest)))

-------------------------------------------------------------------------------
\* Raw status values read as numbers.

\* the digits before and after the decimal point of a string, without the
\* blanks around it and its sign
NumberParts(cs) ==
    LET s == Strip(cs)
    IN  Split(IF s # <<>> /\ Head(s) \in {"+", "-"} THEN Tail(s) ELSE s, ".", <<>>)

\* a string that reads as a decimal number, such as "4" or "4.0"
NumericLooking(cs) ==
    /\ Len(NumberParts(cs)) \in {1, 2}
    /\ NumberParts(cs)[1] # <<>>
    /\ \A k \in 1..Len(NumberParts(cs)) : AllDigits(NumberParts(cs)[k])

\* a present raw status that is representable as a number
RawIsNumeric(raw) ==
    /\ NotNa(raw)
    /\ IF raw.type = "str" THEN NumericLooking(raw.chars) ELSE TRUE

\* a raw status that is the number 4 or a string denoting 4
RawDenotes4(raw) ==
    \/ raw.type \in {"int", "float"} /\ raw.num = 4
    \/ /\ raw.type = "str" /\ NumericLooking(raw.chars)
       /\ Head(Strip(raw.chars)) # "-"
       /\ DigitsValue(NumberParts(raw.chars)[1], 0) = 4
       /\ \A k \in 2..Len(NumberParts(raw.chars)) :
              DigitsValue(NumberParts(raw.chars)[k], 0) = 0

\* C15: the status of every parsed row is the empty string if the raw status
\* is absent, an integer if it is present and representable as a number (an
\* integer, a float, a numeric-looking string such as "4" or "4.0"), and the
\* trimmed string otherwise; a cargo row whose raw status is the number 4 or
\* a string denoting 4 is a valid cargo.
C15_StatusNormalized ==
    pc \notin {"new", "raised"} =>
        \A i \in 1..Len(operations) :
            LET raw == df[i].estado
                estado == operations[i].estado
            IN  /\ ~NotNa(raw) => estado = PyStr(<<>>)
                /\ RawIsNumeric(raw) => estado.type = "int"
                /\ (NotNa(raw) /\ ~RawIsNumeric(raw)) => estado = PyStr(Strip(raw.chars))
                /\ (df[i].fase = "M;P" /\ RawDenotes4(raw)) => is_valid_cargo(operations[i])

\* C16: no exception escapes the conversion of the status of a row: whatever
\* the raw status (non-finite floats and strings that are not integers
\* included), every row of the table yields an Operation, with the string
\* form of the status where the integer coercion fails.
C16_StatusConversionNeverRaises ==
    pc # "new" =>
        /\ Len(operations) = Len(df)
        /\ \A i \in 1..Len(operations) :
              (df[i].estado.type = "str" /\ IntOfStr(df[i].estado.chars).raised)
                  => operations[i].estado = PyStr(Strip(df[i].estado.chars))

-------------------------------------------------------------------------------
\* The stages of one invocation.

\* the calls of the constructor and of analyze(), in program order: the rows
\* are classified (operations built, classes counted), aggregated by phase
\* and by contract, validated, totalled, formatted for charts, assembled
StageOrder ==
    <<"_parse_operations", "_analyze_summary", "_analyze_by_fase", "_analyze_by_contraido",
      "validate_business_rules", "_calculate_totals", "get_chart_data", "AnalysisResult">>

\* the positions at which a step of the invocation is still to come
Running ==
    pc \in {"new", "summary", "by_fase", "by_contraido", "validate", "totals", "chart",
            "assemble"}

IsPrefix(s, t) == Len(s) <= Len(t) /\ s = SubSeq(t, 1, Len(s))

\* C17: an invocation that can take no further step has ended as succeeded
\* or as failed; the stages that have completed are an initial part of
\* classify, aggregate (by phase, then by contract), validate, total,
\* chart-format, assemble, each at most once; all of them have completed
\* exactly when the run has succeeded, and a failed run has stopped before
\* the end with a failure result.
C17_TerminalAndOrdered ==
    /\ ~Running => pc \in {"succeeded", "failed"}
    /\ IsPrefix(stages, StageOrder)
    /\ (pc = "succeeded") <=> (stages = StageOrder)
    /\ pc = "succeeded" => Get(returned).success
    /\ pc = "failed" => (Len(stages) < Len(StageOrder) /\ ~Get(returned).success)

-------------------------------------------------------------------------------
\* The chart data and the details of one result.

RECURSIVE Count(_, _)
Count(seq, x) ==
    IF seq = <<>> THEN 0
    ELSE (IF Head(seq) = x THEN 1 ELSE 0) + Count(Tail(seq), x)

ChartValuesAreDetails ==
    pc = "succeeded" =>
        LET chart == Get(Get(returned).chart_data)
            details == Get(Get(returned).details)
        IN  /\ Len(chart.fase_distribution) = 3
            /\ chart.fase_distribution[1].value = details.by_fase.AINP.count
            /\ chart.fase_distribution[2].value = details.by_fase.MP.valid.count
            /\ chart.fase_distribution[3].value = details.by_fase.MP.invalid.count
            /\ Len(chart.balance_summary) = 3
            /\ chart.balance_summary[1].value = details.calculations.total_arqueo_positive
            /\ chart.balance_summary[2].value = details.calculations.total_cargo_negative
            /\ chart.balance_summary[3].value = details.calculations.net_balance

\* C18: in every successful result the three fase_distribution values are the
\* AINP, valid M;P and invalid M;P counts of details.by_fase and the three
\* balance_summary values are total_arqueo_positive, total_cargo_negative and
\* net_balance of details.calculations, and get_chart_data takes them from
\* the outputs of the aggregator and of the totals calculator without
\* computing them again: each of the two has run once.
C18_ChartFromOutputs ==
    /\ ChartValuesAreDetails
    /\ pc = "succeeded" =>
            /\ Count(calls, "_analyze_by_fase") = 1
            /\ Count(calls, "_calculate_totals") = 1

-------------------------------------------------------------------------------
\* The flags of the groups.

\* the groups after the first k operations have been folded
GroupsAfter(k) == FoldOperations(<<>>, SubSeq(operations, 1, k))

\* C19: has_invalid_operations and needs_attention of every group are both
\* true exactly when an invalid cargo belongs to the group; the two flags
\* are equal in every group, also while the operations are being folded, and
\* a flag that is set after some operation is still set after every later
\* one.
C19_FlagsIffInvalidCargo ==
    ~IsNone(by_contraido) =>
        /\ \A i \in 1..Len(Get(by_contraido)) :
              LET g == Get(by_contraido)[i]
                  own == OfContraido(operations, g.num_contraido)
              IN  /\ g.has_invalid_operations
                        <=> \E j \in 1..Len(own) : is_invalid_cargo(own[j])
                  /\ g.needs_attention = g.has_invalid_operations
        /\ \A k \in 0..Len(operations) :
              \A i \in 1..Len(GroupsAfter(k)) :
                  LET g == GroupsAfter(k)[i]
                  IN  /\ g.needs_attention = g.has_invalid_operations
                      /\ g.has_invalid_operations =>
                            \A n \in k..Len(operations) :
                                GroupOf(GroupsAfter(n), g.num_contraido).has_invalid_operations

\* a group whose invalid cargo is followed by an arqueo, and a group without one
C19_Witness ==
    /\ ~IsNone(by_contraido)
    /\ Len(operations) = 3
    /\ is_invalid_cargo(operations[1]) /\ is_arqueo(operations[2])
    /\ HasContraido(operations[1])
    /\ operations[1].num_contraido = operations[2].num_contraido
    /\ \E i, j \in 1..Len(Get(by_contraido)) :
          /\ Get(by_contraido)[i].has_invalid_operations
          /\ Get(by_contraido)[i].needs_attention
          /\ ~Get(by_contraido)[j].has_invalid_operations

-------------------------------------------------------------------------------
\* Two analyzers.

\* C20: of two analyzers, each on its own table, whose steps are taken in any
\* order, each ends as it ends when run alone, with the same result returned
\* (or the same exception raised): wherever the two are, finishing one
\* without the other gives what running it alone from the start gives.
C20_Reentrant ==
    ~IsNone(other) =>
        /\ RunAlone(Self).pc = RunAlone(NewAnalyzer(df, metadata)).pc
        /\ RunAlone(Self).returned = RunAlone(NewAnalyzer(df, metadata)).returned
        /\ RunAlone(Get(other)).pc
                = RunAlone(NewAnalyzer(Get(other).df, Get(other).metadata)).pc
        /\ RunAlone(Get(other)).returned
                = RunAlone(NewAnalyzer(Get(other).df, Get(other).metadata)).returned

\* both analyzers, on different tables, have returned: the first a result of
\* success, the second one of failure
C20_Witness ==
    /\ ~IsNone(other)
    /\ pc = "succeeded" /\ Get(other).pc = "failed"
    /\ df # Get(other).df
    /\ Get(returned).success /\ ~Get(Get(other).returned).success

-------------------------------------------------------------------------------
\* Totals and counts of one analysis.

HasNoContraido(op) == ~HasContraido(op)

RECURSIVE SumField(_, _)
SumField(groups, field) ==
    IF groups = <<>> THEN 0 ELSE Head(groups)[field] + SumField(Tail(groups), field)

C28_CountsConsistent ==
    pc = "succeeded" =>
        LET s == Get(Get(returned).summary)
            f == Get(Get(returned).details).by_fase
            groups == Get(Get(returned).details).by_contraido
            v == Get(Get(returned).validation)
        IN  /\ s.cargo_count = s.valid_cargo_count + s.invalid_cargo_count
            /\ s.arqueo_count + s.cargo_count <= s.total_operations
            /\ f.AINP.count = s.arqueo_count /\ f.AINP.count = Len(f.AINP.operations)
            /\ f.MP.count = s.cargo_count
            /\ f.MP.valid.count = s.valid_cargo_count
            /\ f.MP.valid.count = Len(f.MP.valid.operations)
            /\ f.MP.invalid.count = s.invalid_cargo_count
            /\ f.MP.invalid.count = Len(f.MP.invalid.operations)
            /\ s.unique_contraidos = Len(groups)
            /\ v.total_issues = s.invalid_cargo_count

\* a result with an arqueo, a valid and an invalid cargo, one of them without
\* a contract identifier
C28_Witness ==
    /\ pc = "succeeded"
    /\ Get(Get(returned).summary).arqueo_count = 1
    /\ Get(Get(returned).summary).valid_cargo_count = 1
    /\ Get(Get(returned).summary).invalid_cargo_count = 1
    /\ Get(Get(returned).summary).unique_contraidos = 2
    /\ \E i \in 1..Len(operations) : ~HasContraido(operations[i])

-------------------------------------------------------------------------------
\* The analyzer between the calls of its methods.

\* a returned result as the caller reads it now: the metadata of a success
\* result is the analyzer's own mapping, the other fields were built by the
\* call that returned it
Observed(result) ==
    IF result.success THEN [result EXCEPT !.metadata = metadata] ELSE result

\* C21: no call of _analyze_summary, _analyze_by_fase, _analyze_by_contraido,
\* validate_business_rules, _calculate_totals, get_chart_data or analyze
\* changes the operations of the analyzer (their number, their order, any
\* field) or its metadata, and a result an earlier analyze() has returned
\* reads the same after every later call.
C21_InputsNotMutated ==
    (pc = "summary" /\ ~IsNone(before)) =>
        /\ operations = Get(before).operations
        /\ operations = ParseRows(df, <<>>).operations
        /\ metadata = Get(before).metadata
        /\ Len(results) >= Len(Get(before).results)
        /\ \A i \in 1..Len(Get(before).results) : results[i] = Get(before).results[i]
        /\ \A i \in 1..Len(results) : Observed(results[i]) = results[i]

\* two results of analyze() on a table with operations, and a stage called
\* after them
C21_Witness ==
    /\ pc = "summary"
    /\ Len(results) = 2
    /\ results[1].success
    /\ last_call = "_analyze_by_contraido"
    /\ Len(operations) = 2

\* C29: export_summary and export_full_results return a dictionary and never
\* raise, whatever the analyzer has done before: with no result held they
\* run analyze() first, also after an analyze() that ended in failure, and
\* then return the fields of the held result.
C29_ExportNeverRaises ==
    last_call \in {"export_summary", "export_full_results"} =>
        /\ IsNone(raised)
        /\ ~IsNone(returned)
        /\ ~IsNone(analysis_results)
        /\ last_call = "export_summary" => Get(returned) = Get(analysis_results).summary

-------------------------------------------------------------------------------
\* The service layer: parser, result cache, routes.

\* the identifiers analyze_file has returned
Issued == {stored[i].analysis_id : i \in DOMAIN stored}

\* the last answer came from this route
Answered(route) == ~IsNone(response) /\ Get(response).route = route

\* the file has the eleven columns (blanks around a name aside), at least
\* one row, and numbers in the Importe column
StructurallyValid(file) ==
    /\ file.readable
    /\ \A i \in DOMAIN REQUIRED_COLUMNS :
          \E j \in DOMAIN file.columns : Strip(file.columns[j]) = <<REQUIRED_COLUMNS[i]>>
    /\ file.rows # <<>>
    /\ \A i \in DOMAIN file.rows : file.rows[i].importe.type # "str"

C22_CacheKeepsEveryEntry ==
    /\ DOMAIN _analysis_cache.analysis = Issued
    /\ Cardinality(Issued) = Len(stored)
    /\ \A i \in DOMAIN stored :
          get_analysis(_analysis_cache.analysis, stored[i].analysis_id)
              = Some(stored[i].entry)
    /\ {l.analysis_id : l \in list_analyses(_analysis_cache.analysis)} = Issued
    /\ \A a \in Ids \ Issued : IsNone(get_analysis(_analysis_cache.analysis, a))
    /\ Answered("get_analysis") =>
          /\ Get(response).analysis_id \notin Issued => IsNone(Get(response).body)
          /\ \A i \in DOMAIN stored :
                stored[i].analysis_id = Get(response).analysis_id
                    => Get(response).body = Some(stored[i].entry)
    /\ Answered("list_analyses") =>
          {l.analysis_id : l \in Get(response).body} = Issued

\* the first of two different stored results was fetched after the second
\* was stored
C22_Witness ==
    /\ Len(stored) = 2
    /\ stored[1].entry.summary # stored[2].entry.summary
    /\ Answered("get_analysis")
    /\ Get(response).analysis_id = stored[1].analysis_id
    /\ Get(response).status = 200

\* analyze_file has no result to store for this file and analysis type
NothingToStore(file, analysis_type) ==
    \/ ~parse(file).success
    \/ ~IsNone(analysis_type) /\ Get(analysis_type) \notin Registered
    \/ /\ Constructed(parse(file)).pc # "raised"
       /\ ~Get(analyze(Constructed(parse(file))).returned).success

\* C26: analyze_file caches an entry only for an analysis that succeeded:
\* when the parse fails, no analyzer can be selected or the analyzer returns
\* success=false it raises ValueError and leaves the cache as it was; every
\* entry of the cache has status 'completed' and the summary, details,
\* validation, chart_data and metadata of a success=true result.
C26_OnlySuccessesStored ==
    /\ \A i \in DOMAIN stored :
          /\ stored[i].entry.status = "completed"
          /\ _analysis_cache.analysis[stored[i].analysis_id] = stored[i].entry
          /\ StructurallyValid(stored[i].file)
          /\ Get(analyze(Constructed(parse(stored[i].file))).returned).success
          /\ \A field \in {"summary", "details", "validation", "chart_data", "metadata"} :
                stored[i].entry[field]
                    = Get(analyze(Constructed(parse(stored[i].file))).returned)[field]
    /\ (Answered("analyze_file") /\ Get(response).found) =>
          /\ NothingToStore(Get(response).file, Get(response).analysis_type) =>
                /\ Get(response).raised = Some("ValueError")
                /\ Get(response).status = 400
          /\ ~IsNone(Get(response).raised) =>
                _analysis_cache.analysis = Get(response).cache_before

\* with one entry cached, a file the parser rejects was refused
C26_Witness ==
    /\ Len(stored) = 1
    /\ Answered("analyze_file")
    /\ Get(response).found
    /\ ~Get(response).parse_result.success
    /\ Get(response).raised = Some("ValueError")
    /\ Get(response).cache_before # <<>>

\* C25: the result cache is one for the whole process: an identifier the
\* analysis route has returned is found by every route, so export_analysis
\* of it does not answer 404 'Analysis not found'.
C25_ExportFindsAnalysis ==
    (Answered("export_analysis") /\ Get(response).analysis_id \in Issued) =>
        Get(response).status # 404

\* C30: export_analysis answers 404 for an unknown identifier, 400 for a
\* format other than 'json' and 'excel', 500 only when writing the export
\* fails, and for a known identifier with 'json' or 'excel' an export
\* identifier whose file download_export finds.
C30_ExportStatuses ==
    Answered("export_analysis") =>
        /\ Get(response).analysis_id \notin Issued => Get(response).status = 404
        /\ (Get(response).analysis_id \in Issued
               /\ Get(response).format \notin {"json", "excel"})
              => Get(response).status = 400
        /\ Get(response).status = 500 =>
              Get(response).format \in {"json", "excel"} /\ ~Get(response).writes
        /\ (Get(response).analysis_id \in Issued
               /\ Get(response).format \in {"json", "excel"} /\ Get(response).writes)
              => /\ Get(response).status = 200
                 /\ \E ext \in {".json", ".xlsx", ".pdf"} :
                       <<Get(response).export_id, ext>> \in export_dir

-------------------------------------------------------------------------------
\* The standalone analyzer against the analyzer of the service.

\* both analyzers have ended on a table with operations
BothEnded ==
    /\ Len(df) >= 1
    /\ pc \in {"succeeded", "failed", "raised"}
    /\ standalone.pc \in {"analyzed", "raised"}

\* both have returned their outputs
BothReturned == BothEnded /\ pc = "succeeded" /\ standalone.pc = "analyzed"

\* the outputs of the standalone analyzer and of the service's
Alone == Get(standalone.analysis_results)

Served ==
    [summary |-> Get(Get(returned).summary),
     by_fase |-> Get(Get(returned).details).by_fase,
     by_contraido |-> Get(Get(returned).details).by_contraido,
     calculations |-> Get(Get(returned).details).calculations,
     validation |-> Get(Get(returned).validation)]

\* what an issue is about
About(issue) ==
    [type |-> issue.type, operation |-> issue.operation,
     contraido |-> issue.contraido, amount |-> issue.amount]

\* the description holds the keyword at position k, letter for letter
\* (`folded`: capital letters count as their small ones)
KeywordAt(descripcion, k, folded) ==
    /\ k + Len(Anula) - 1 <= Len(descripcion)
    /\ \A n \in 1..Len(Anula) :
          \/ descripcion[k + n - 1] = Anula[n]
          \/ /\ folded
             /\ \E m \in 1..26 : /\ LowerLetters[m] = Anula[n]
                                 /\ UpperLetters[m] = descripcion[k + n - 1]

\* the invalid cargos no other cargo of their contract cancels, in the order
\* of the operations
Uncancelled(folded) ==
    SelectSeq(operations,
        LAMBDA op :
            /\ is_invalid_cargo(op)
            /\ ~\E i \in 1..Len(operations) :
                  /\ is_cargo(operations[i])
                  /\ operations[i].num_contraido = op.num_contraido
                  /\ operations[i].num_operacion # op.num_operacion
                  /\ \E k \in 1..Len(operations[i].descripcion) :
                        KeywordAt(operations[i].descripcion, k, folded))

\* summary, by-phase, by-contract and totals are the same, and the warnings
\* are about the same groups in the same order
SameFigures ==
    /\ Alone.summary = Served.summary
    /\ Alone.by_fase = Served.by_fase
    /\ Alone.by_contraido = Served.by_contraido
    /\ Alone.calculations = Served.calculations
    /\ Len(Alone.validation.warnings) = Len(Served.validation.warnings)
    /\ \A i \in 1..Len(Served.validation.warnings) :
          /\ Alone.validation.warnings[i].type = Served.validation.warnings[i].type
          /\ Alone.validation.warnings[i].contraido = Served.validation.warnings[i].contraido
          /\ Alone.validation.warnings[i].balance = Served.validation.warnings[i].balance

\* the standalone issues are the service's, then one MP_WITHOUT_CANCELLATION
\* issue for each uncancelled invalid cargo
IssuesDifferByUncancelled(folded) ==
    /\ Len(Alone.validation.issues)
          = Len(Served.validation.issues) + Len(Uncancelled(folded))
    /\ \A i \in 1..Len(Served.validation.issues) :
          /\ i <= Len(Alone.validation.issues)
          /\ About(Alone.validation.issues[i]) = About(Served.validation.issues[i])
          /\ Served.validation.issues[i].type = "INVALID_CARGO"
    /\ \A k \in 1..Len(Uncancelled(folded)) :
          /\ Len(Served.validation.issues) + k <= Len(Alone.validation.issues)
          /\ About(Alone.validation.issues[Len(Served.validation.issues) + k])
                = [type |-> "MP_WITHOUT_CANCELLATION",
                   operation |-> Uncancelled(folded)[k].num_operacion,
                   contraido |-> Uncancelled(folded)[k].num_contraido,
                   amount |-> Uncancelled(folded)[k].importe]

\* C24 as stated: on every table with at least one operation the two
\* analyzers give the same summary, by-phase, by-contract and totals outputs
\* and warnings about the same groups in the same order, and the standalone
\* issue list is the service's followed by one MP_WITHOUT_CANCELLATION issue
\* for each invalid cargo for which no other cargo of the same contract with
\* a different operation number has a description containing 'anula'.
C24_StandaloneAgrees ==
    BothReturned => SameFigures /\ IssuesDifferByUncancelled(FALSE)

\* C24 (amended): on every table with at least one operation the two
\* analyzers either both return outputs or both do not; when they do, the
\* summary, by-phase, by-contract and totals outputs are identical, the
\* warnings are about the same groups in the same order (the standalone ones
\* without the severity field), the INVALID_CARGO issues report the same
\* operations (the standalone ones without the severity field), and the
\* standalone list ends with one MP_WITHOUT_CANCELLATION issue for each
\* invalid cargo for which no other cargo of the same contract with a
\* different operation number has a description containing 'anula' in any
\* mix of capital and small letters.
C24_StandaloneAgreesIgnoringCase ==
    /\ BothEnded => (pc = "succeeded" <=> standalone.pc = "analyzed")
    /\ BothReturned =>
          /\ SameFigures
          /\ IssuesDifferByUncancelled(TRUE)
          /\ \A i \in 1..Len(Served.validation.issues) :
                /\ DOMAIN Alone.validation.issues[i]
                      = DOMAIN Served.validation.issues[i] \ {"severity"}
                /\ \A field \in DOMAIN Alone.validation.issues[i] :
                      Alone.validation.issues[i][field] = Served.validation.issues[i][field]
          /\ \A i \in 1..Len(Served.validation.warnings) :
                DOMAIN Alone.validation.warnings[i]
                    = DOMAIN Served.validation.warnings[i] \ {"severity"}

\* an invalid cargo whose contract has another cargo described in capitals
\* as 'ANULADA': both analyzers report it, the standalone one adds nothing
C24_Witness ==
    /\ BothReturned
    /\ Len(operations) = 2
    /\ is_invalid_cargo(operations[1])
    /\ operations[2].descripcion = <<"A", "N", "U", "L", "A", "D", "A">>
    /\ Len(Alone.validation.issues) = 1
    /\ Len(Served.validation.issues) = 1

====
